---- MODULE Spec2Model ----
(***************************************************************************)
(* A model of the policyflow execution infrastructure: the file-backed     *)
(* response cache (src/src/policyflow/cache.py), the token-bucket rate     *)
(* limiter (src/src/policyflow/rate_limiter.py) and LLMNode.call_llm       *)
(* (src/src/policyflow/nodes/llm_node.py), which composes the two around   *)
(* the external reasoning call.                                            *)
(*                                                                         *)
(* Threads are the callers.  Every method is a sequence of steps, one per  *)
(* access to shared state (the lock, the cache directory, the bucket), so  *)
(* that callers interleave exactly where the code lets them.               *)
(*                                                                         *)
(* Units.  The clock counts whole seconds.  The bucket is counted in       *)
(* sixtieths of a token: with rate_limit = C the code's refill of          *)
(* time_passed * C / 60 tokens is time_passed * C sixtieths, an integer.   *)
(* A wait of wait_time seconds is kept as wait_time * C, also an integer.  *)
(***************************************************************************)
EXTENDS Integers, Sequences, FiniteSets, TLC

\* ------------------------------------------------------------- bounds
\* The clock runs for MaxTicks ticks.  MaxTTL is the largest time-to-live
\* tried, in ticks.  Interval is the length in seconds of a tick of the
\* runs that exercise the rate limiter.
MaxTicks == 3
MaxTTL == 2
Interval == 10
\* MaxRetries is the largest max_retries tried, MaxSubs the longest list of
\* sub-criteria.
MaxRetries == 3
MaxSubs == 3
MaxVisits == 3

\* ---------------------------------------------------------- universes
Threads == {"t1", "t2"}
\* An LLMNode, or a bare CacheManager / RateLimiter object of the tests.
\* Every CacheManager of a process is built over the same directory.
Insts == {"A", "B"}
\* RateLimiter(rate_limit): requests per minute.
Capacities == {2, 3}
SecondsPerMinute == 60

VARIABLES
    clock,        \* time.time(), in seconds
    made,         \* the instances that were constructed
    ttl,          \* CacheManager._ttl, per instance
    preDir,       \* did the cache directory exist before any constructor ran
    dirExists,    \* does the cache directory exist
    files,        \* the cache directory: key |-> content of <key>.yaml
    lock,         \* CacheManager._lock, per instance: "free" or the holder
    lastSet,      \* history: per key, the most recent set that completed
    rate_limit,   \* RateLimiter._rate_limit, per instance: None or a number
    tokens,       \* RateLimiter._tokens, per instance, in sixtieths of a token
    last_update,  \* RateLimiter._last_update, per instance
    rl_lock,      \* RateLimiter._lock, per instance: "free" or the holder
    fast,         \* history: per instance, the calls that returned without sleeping
    mark,         \* history: per instance, the last time the bucket was emptied
                  \* and the calls that returned without sleeping since
    pc,           \* per thread: where it stands in the method it runs
    op,           \* per thread: the method it was asked to run
    self,         \* per thread: the instance the method runs on
    local,        \* per thread: the method's arguments and local variables
    ret,          \* per thread: what the last finished call returned or raised
    workflow,     \* the WorkflowConfig of the process
    policy,       \* the criterion under evaluation: sub_logic, and the verdict
                  \* the reasoning collaborator has for each sub-criterion
    node,         \* per thread: the node it runs and where the run stands
    shared,       \* per thread: the shared store of its workflow run
    gate,         \* the ConfidenceGateConfig of the process and what was
                  \* classified against it
    flow          \* the workflow of the process: its definition, the graph built
                  \* from it, the engine's current node and the nodes it ran

config == <<made, ttl, preDir, dirExists, rate_limit>>
store == <<files, lastSet>>
bucket == <<tokens, last_update, fast, mark>>
settings == <<workflow, policy, gate>>
engine == <<settings, node, shared, flow>>
vars == <<clock, config, engine, store, lock, bucket, rl_lock, pc, op, self, local, ret>>

\* ------------------------------------------------------- Python values
\* A value is a record tagged by t; each tag has its own field name, so
\* that values of different types are comparable.
PyNone == [t |-> "none"]
PyBool(b) == [t |-> "bool", b |-> b]
PyNum(n) == [t |-> "num", n |-> n]
PyStr(s) == [t |-> "str", s |-> s]
PyList(items) == [t |-> "list", items |-> items]
PyDict(kv) == [t |-> "dict", kv |-> kv]
PyExc(e) == [t |-> "exc", e |-> e]
\* A str kept character by character.
Text(chars) == [t |-> "text", chars |-> chars]

DictHas(d, k) == \E p \in d.kv : p[1] = k
DictGet(d, k) == IF DictHas(d, k) THEN (CHOOSE p \in d.kv : p[1] = k)[2] ELSE PyNone

\* bool(v)
Truthy(v) ==
    CASE v.t = "none" -> FALSE
      [] v.t = "bool" -> v.b
      [] v.t = "num" -> v.n # 0
      [] v.t = "str" -> v.s # ""
      [] v.t = "list" -> v.items # {}
      [] v.t = "dict" -> v.kv # {}
      [] v.t = "text" -> v.chars # <<>>

\* The result dictionaries the reasoning collaborator returns and callers store.
Payloads == {
    PyDict({}),
    PyDict({<<"met", PyBool(TRUE)>>, <<"confidence", PyNum(1)>>}) }

\* --------------------------------------------------------- cache files
\* yaml.safe_dump(..., default_flow_style=False) writes a mapping as one
\* line per key, keys sorted, a nested mapping indented under its key and
\* an empty mapping as "{}".  A line is [ind, k, v]; v is a scalar, or
\* the marker of a nested block or of "{}".
KeyOrder == <<"confidence", "met", "reasoning", "result", "timestamp">>
BlockOpen == [t |-> "block"]
FlowEmpty == [t |-> "flow_empty"]

RECURSIVE DumpLines(_, _, _)
DumpLines(d, ind, from) ==
    IF from > Len(KeyOrder) THEN <<>>
    ELSE LET k == KeyOrder[from]
             rest == DumpLines(d, ind, from + 1)
         IN IF ~DictHas(d, k) THEN rest
            ELSE LET v == DictGet(d, k)
                 IN IF v.t = "dict" /\ v.kv # {}
                       THEN <<[ind |-> ind, k |-> k, v |-> BlockOpen]>>
                            \o DumpLines(v, ind + 1, 1) \o rest
                    ELSE IF v.t = "dict"
                       THEN <<[ind |-> ind, k |-> k, v |-> FlowEmpty]>> \o rest
                    ELSE <<[ind |-> ind, k |-> k, v |-> v]>> \o rest

safe_dump(d) == DumpLines(d, 0, 1)

\* yaml.safe_load of a block mapping of depth at most two.
LoadLines(lines) ==
    LET top == {i \in 1..Len(lines) : lines[i].ind = 0}
        kids(i) == {j \in (i + 1)..Len(lines) :
                       \A m \in (i + 1)..j : lines[m].ind = 1}
        val(i) == IF lines[i].v = BlockOpen
                     THEN PyDict({<<lines[j].k, lines[j].v>> : j \in kids(i)})
                  ELSE IF lines[i].v = FlowEmpty THEN PyDict({})
                  ELSE lines[i].v
    IN PyDict({<<lines[i].k, val(i)>> : i \in top})

NoFile == [form |-> "absent"]
Truncated == [form |-> "empty"]
Mapping(lines) == [form |-> "mapping", lines |-> lines]
Scalar(v) == [form |-> "scalar", value |-> v]
Sequence(items) == [form |-> "sequence", items |-> items]
InvalidYaml == [form |-> "invalid_yaml"]
NotUtf8 == [form |-> "not_utf8"]

\* open(cache_file, "r") and yaml.safe_load(f): the value, or what is raised.
safe_load(c) ==
    CASE c.form = "absent" -> PyExc("OSError")
      [] c.form = "empty" -> PyNone
      [] c.form = "mapping" -> LoadLines(c.lines)
      [] c.form = "scalar" -> c.value
      [] c.form = "sequence" -> PyList(c.items)
      [] c.form = "invalid_yaml" -> PyExc("YAMLError")
      [] c.form = "not_utf8" -> PyExc("UnicodeDecodeError")

\* call_llm, line 73: f"{system_prompt or ''}\n{prompt}".
OrEmpty(system_prompt) == IF Truthy(system_prompt) THEN system_prompt.chars ELSE <<>>
CacheInput(system_prompt, prompt) == OrEmpty(system_prompt) \o <<"\n">> \o prompt.chars

\* A key that depends on the length of the input only.
generate_keyOfLength(prompt) == [sha256 |-> <<Len(prompt)>>]

\* generate_key: the digest names the input it was computed from.
generate_key(prompt) == [sha256 |-> prompt]

SystemPrompts == {PyNone, Text(<<"s">>)}
Prompts == {Text(<<"p">>)}
\* Two requests whose system prompt and prompt differ and whose joined texts
\* are the same.
Joined == {<<Text(<<"s">>), Text(<<"\n", "p">>)>>, <<Text(<<"s", "\n">>), Text(<<"p">>)>>}
Requests == {<<sp, p>> : sp \in SystemPrompts, p \in Prompts} \cup Joined
Keys == {generate_key(CacheInput(r[1], r[2])) : r \in Requests}

\* What a cache directory may hold that CacheManager.set did not write:
\* the files of tests/test_cache.py (204-249) and their neighbours.
ForeignFiles == {
    InvalidYaml,
    NotUtf8,
    Truncated,
    Scalar(PyNum(42)),
    Scalar(PyStr("hello")),
    Scalar(PyStr("timestamp")),
    Sequence({"timestamp"}),
    Sequence({"a"}),
    Mapping(<<[ind |-> 0, k |-> "result", v |-> PyStr("data")]>>),
    Mapping(<<[ind |-> 0, k |-> "timestamp", v |-> PyNum(0)]>>),
    Mapping(<<[ind |-> 0, k |-> "timestamp", v |-> PyStr("abc")]>>),
    Mapping(<<[ind |-> 0, k |-> "result", v |-> PyStr("data")],
              [ind |-> 0, k |-> "timestamp", v |-> PyNone]>>) }

\* ------------------------------------------------------ CacheManager
\* A constructor that creates the directory whatever the TTL.
MakesDirAlways(t) == TRUE

\* __init__ (cache.py 27-29): the directory is made only when ttl > 0.
MakesDir(t) == t > 0

DirAfterInit(before, ttls, built) ==
    before \/ \E i \in built : MakesDir(ttls[i])

\* get, lines 62-78, once the file is known to exist: what was loaded
\* decides between returning the result, unlinking the file and returning
\* None, and letting an exception escape.  `"timestamp" in cached_data` is a
\* key test on a dict, a member test on a list, a substring test on a str
\* and a TypeError on a number.
CaughtInGet == {"YAMLError", "OSError", "KeyError"}

Contains(v, k) ==
    CASE v.t = "dict" -> DictHas(v, k)
      [] v.t = "list" -> k \in v.items
      [] v.t = "str" -> v.s = k
      [] OTHER -> FALSE

ReturnResult(v, age) == [act |-> "return", val |-> v, age |-> age]
UnlinkFile == [act |-> "unlink", aged |-> FALSE, age |-> 0]
UnlinkExpired(age) == [act |-> "unlink", aged |-> TRUE, age |-> age]
Raise(e) == [act |-> "raise", exc |-> e]

\* A cache that still takes an entry of age TTL as fresh.
FreshInclusive(age, t) == age <= t

\* Line 69: the entry is served while age < ttl.
Fresh(age, t) == age < t

GetBody(cached_data, now, t) ==
    IF cached_data.t = "exc"
       THEN IF cached_data.e \in CaughtInGet THEN UnlinkFile
            ELSE Raise(cached_data.e)
    ELSE IF ~Truthy(cached_data) THEN UnlinkFile
    ELSE IF cached_data.t \in {"num", "bool"} THEN Raise("TypeError")
    ELSE IF ~Contains(cached_data, "timestamp") THEN UnlinkFile
    ELSE IF cached_data.t # "dict" THEN Raise("TypeError")
    ELSE LET ts == DictGet(cached_data, "timestamp")
         IN IF ts.t # "num" THEN Raise("TypeError")
            ELSE IF Fresh(now - ts.n, t)
               THEN ReturnResult(DictGet(cached_data, "result"), now - ts.n)
            ELSE UnlinkExpired(now - ts.n)

\* ------------------------------------------------------------ threads
Ready == {"idle", "done", "raised"}
NoKey == generate_key(<<>>)

Local0 == [key |-> NoKey, value |-> PyNone, cache_data |-> PyNone,
           cached_data |-> PyNone, age |-> PyNone, detached |-> FALSE,
           now |-> 0, wait_time |-> 0, slept_from |-> 0,
           yaml_response |-> TRUE, result |-> PyNone, prompt |-> <<>>,
           request |-> <<PyNone, PyNone>>]

\* What stays on record of a call once it has ended.
Kept(l) == [Local0 EXCEPT !.key = l.key, !.age = l.age, !.request = l.request]

Never == [st |-> "never"]
Completed(st, l) == [st |-> st, value |-> l.value, ts |-> DictGet(l.cache_data, "timestamp").n]

\* A call_llm that goes on to the limiter whatever the cache returned.
PcAfterGetAlwaysCalls(t, v) == IF op[t] = "call_llm" THEN "wait" ELSE "done"

\* Where get hands control back to with value v (call_llm, lines 77-79 and
\* 82, goes on to the rate limiter on None), and what it hands back.
PcAfterGet(t, v) == IF op[t] = "call_llm" /\ v = PyNone THEN "wait" ELSE "done"
LocalAfterGet(t, v, l) ==
    IF op[t] = "call_llm" /\ v = PyNone
       THEN [Local0 EXCEPT !.key = l.key, !.yaml_response = l.yaml_response,
                           !.request = l.request]
    ELSE Kept(l)
RetAfterGet(t, v) == v

\* Where set hands control back to (call_llm, line 98, returns the result).
RetAfterSet(t) == IF op[t] = "call_llm" THEN local[t].result ELSE PyNone

\* ------------------------------------------------------ CacheManager.get
BeginGet(t, i, k) ==
    /\ pc[t] \in Ready
    /\ i \in made
    /\ pc' = [pc EXCEPT ![t] = "get"]
    /\ op' = [op EXCEPT ![t] = "get"]
    /\ self' = [self EXCEPT ![t] = i]
    /\ local' = [local EXCEPT ![t] = [Local0 EXCEPT !.key = k]]
    /\ UNCHANGED <<clock, config, engine, store, lock, bucket, rl_lock, ret>>

\* Lines 31-41: generate_key(prompt) returns the hex digest of the encoded
\* prompt.
GenerateKey(t, i, prompt) ==
    /\ pc[t] \in Ready
    /\ i \in made
    /\ pc' = [pc EXCEPT ![t] = "done"]
    /\ op' = [op EXCEPT ![t] = "generate_key"]
    /\ self' = [self EXCEPT ![t] = i]
    /\ local' = [local EXCEPT ![t] = [Local0 EXCEPT !.prompt = prompt]]
    /\ ret' = [ret EXCEPT ![t] = PyStr(generate_key(prompt))]
    /\ UNCHANGED <<clock, config, engine, store, lock, bucket, rl_lock>>

\* Lines 53-60: None when the cache is disabled; else take the lock and
\* test that the file exists.
GetEnter(t) ==
    /\ pc[t] = "get"
    /\ IF ttl[self[t]] = 0 \/ (lock[self[t]] = "free" /\ files[local[t].key] = NoFile)
          THEN /\ pc' = [pc EXCEPT ![t] = PcAfterGet(t, PyNone)]
               /\ ret' = [ret EXCEPT ![t] = RetAfterGet(t, PyNone)]
               /\ local' = [local EXCEPT ![t] = LocalAfterGet(t, PyNone, local[t])]
               /\ UNCHANGED lock
          ELSE /\ lock[self[t]] = "free"
               /\ lock' = [lock EXCEPT ![self[t]] = t]
               /\ pc' = [pc EXCEPT ![t] = "get_open"]
               /\ UNCHANGED <<ret, local>>
    /\ UNCHANGED <<clock, config, engine, store, bucket, rl_lock, op, self>>

\* A get that restamps the entry it returns.
FileRestamped(c, now) ==
    Mapping(safe_dump(PyDict({<<"timestamp", PyNum(now)>>,
                              <<"result", DictGet(safe_load(c), "result")>>})))

\* Lines 63-70: the file is opened with mode "r" and closed; returning the
\* result writes nothing.
FileAfterHit(c, now) == c

\* Lines 62-70 and 74: open, load, test the age.
GetLoad(t) ==
    /\ pc[t] = "get_open"
    /\ LET cached_data == safe_load(files[local[t].key])
           b == GetBody(cached_data, clock, ttl[self[t]])
           l == [local[t] EXCEPT !.cached_data = cached_data]
       IN CASE b.act = "return" ->
                 /\ pc' = [pc EXCEPT ![t] = PcAfterGet(t, b.val)]
                 /\ ret' = [ret EXCEPT ![t] = RetAfterGet(t, b.val)]
                 /\ local' = [local EXCEPT ![t] =
                        LocalAfterGet(t, b.val, [l EXCEPT !.age = PyNum(b.age)])]
                 /\ lock' = [lock EXCEPT ![self[t]] = "free"]
                 /\ files' = [files EXCEPT ![local[t].key] =
                        IF b.val = PyNone THEN @ ELSE FileAfterHit(@, clock)]
            [] b.act = "raise" ->
                 /\ pc' = [pc EXCEPT ![t] = "raised"]
                 /\ ret' = [ret EXCEPT ![t] = PyExc(b.exc)]
                 /\ local' = [local EXCEPT ![t] = Kept(l)]
                 /\ lock' = [lock EXCEPT ![self[t]] = "free"]
                 /\ UNCHANGED files
            [] b.act = "unlink" ->
                 /\ pc' = [pc EXCEPT ![t] = "get_unlink"]
                 /\ local' = [local EXCEPT ![t] =
                        [l EXCEPT !.age = IF b.aged THEN PyNum(b.age) ELSE PyNone]]
                 /\ UNCHANGED <<ret, lock, files>>
    /\ UNCHANGED <<clock, config, engine, lastSet, bucket, rl_lock, op, self>>

\* A writer whose file is unlinked under it keeps writing to the unlinked
\* file: what it writes never shows up under the name again.
Detach(k, loc) ==
    [u \in Threads |->
        IF pc[u] = "set_dump" /\ loc[u].key = k
           THEN [loc[u] EXCEPT !.detached = TRUE] ELSE loc[u]]

\* Lines 73 or 76, and 78: unlink(missing_ok=True), return None.
GetUnlink(t) ==
    /\ pc[t] = "get_unlink"
    /\ files' = [files EXCEPT ![local[t].key] = NoFile]
    /\ local' = Detach(local[t].key,
                       [local EXCEPT ![t] = LocalAfterGet(t, PyNone, local[t])])
    /\ lock' = [lock EXCEPT ![self[t]] = "free"]
    /\ pc' = [pc EXCEPT ![t] = PcAfterGet(t, PyNone)]
    /\ ret' = [ret EXCEPT ![t] = RetAfterGet(t, PyNone)]
    /\ UNCHANGED <<clock, config, engine, lastSet, bucket, rl_lock, op, self>>

\* ------------------------------------------------------ CacheManager.set
BeginSet(t, i, k, v) ==
    /\ pc[t] \in Ready
    /\ i \in made
    /\ pc' = [pc EXCEPT ![t] = "set"]
    /\ op' = [op EXCEPT ![t] = "set"]
    /\ self' = [self EXCEPT ![t] = i]
    /\ local' = [local EXCEPT ![t] = [Local0 EXCEPT !.key = k, !.value = v]]
    /\ UNCHANGED <<clock, config, engine, store, lock, bucket, rl_lock, ret>>

\* Lines 88-92: nothing when the cache is disabled; else the record to
\* store, stamped before the lock is taken.
SetEnter(t) ==
    /\ pc[t] = "set"
    /\ IF ttl[self[t]] = 0
          THEN /\ pc' = [pc EXCEPT ![t] = "done"]
               /\ ret' = [ret EXCEPT ![t] = RetAfterSet(t)]
               /\ local' = [local EXCEPT ![t] = Kept(local[t])]
          ELSE /\ pc' = [pc EXCEPT ![t] = "set_lock"]
               /\ local' = [local EXCEPT ![t].cache_data =
                     PyDict({<<"timestamp", PyNum(clock)>>, <<"result", local[t].value>>})]
               /\ UNCHANGED ret
    /\ UNCHANGED <<clock, config, engine, store, lock, bucket, rl_lock, op, self>>

\* A set that lets the OSError out.
SetRaisesOSError(t) ==
    /\ pc' = [pc EXCEPT ![t] = "raised"]
    /\ ret' = [ret EXCEPT ![t] = PyExc("OSError")]

\* Lines 98-100: what set does with an OSError.
SetOnOSError(t) ==
    /\ pc' = [pc EXCEPT ![t] = "done"]
    /\ ret' = [ret EXCEPT ![t] = RetAfterSet(t)]

\* Lines 94-96: take the lock and open(cache_file, "w"), which empties the
\* file, or fails with an OSError and leaves it as it was.
SetOpen(t, opens) ==
    /\ pc[t] = "set_lock"
    /\ lock[self[t]] = "free"
    /\ IF opens /\ dirExists
          THEN /\ files' = [files EXCEPT ![local[t].key] = Truncated]
               /\ lock' = [lock EXCEPT ![self[t]] = t]
               /\ pc' = [pc EXCEPT ![t] = "set_dump"]
               /\ UNCHANGED <<ret, local, lastSet>>
          ELSE /\ SetOnOSError(t)
               /\ local' = [local EXCEPT ![t] = Kept(local[t])]
               /\ lastSet' = [lastSet EXCEPT ![local[t].key] = Completed("failed", local[t])]
               /\ UNCHANGED <<files, lock>>
    /\ UNCHANGED <<clock, config, engine, bucket, rl_lock, op, self>>

\* A write that never reaches the file.
WrittenNothing(detached, current, text) == {current}

\* What the file holds once a writer has dumped its lines and closed it.
\* A writer detached from the name changes nothing.  A writer whose file
\* was written through another handle since it opened it overwrites the
\* head of that text: the result is its own text or, when the other text
\* was longer, a mix.
Written(detached, current, text) ==
    IF detached THEN {current}
    ELSE IF current = Truncated THEN {Mapping(text)}
    ELSE {Mapping(text), InvalidYaml}

\* Lines 97-100: yaml.safe_dump into the file and close it, or an OSError
\* while writing, which leaves the file as it stands.
SetDump(t, writes) ==
    /\ pc[t] = "set_dump"
    /\ IF writes
          THEN /\ \E c \in Written(local[t].detached, files[local[t].key],
                                   safe_dump(local[t].cache_data)) :
                     files' = [files EXCEPT ![local[t].key] = c]
               /\ lastSet' = [lastSet EXCEPT ![local[t].key] = Completed("stored", local[t])]
               /\ pc' = [pc EXCEPT ![t] = "done"]
               /\ ret' = [ret EXCEPT ![t] = RetAfterSet(t)]
          ELSE /\ SetOnOSError(t)
               /\ lastSet' = [lastSet EXCEPT ![local[t].key] = Completed("failed", local[t])]
               /\ UNCHANGED files
    /\ lock' = [lock EXCEPT ![self[t]] = "free"]
    /\ local' = [local EXCEPT ![t] = Kept(local[t])]
    /\ UNCHANGED <<clock, config, engine, bucket, rl_lock, op, self>>

\* -------------------------------------------------------- RateLimiter
\* One token is SecondsPerMinute sixtieths.  __init__, line 23: a full bucket.
FullBucket(c) == c * SecondsPerMinute

Min(a, b) == IF a < b THEN a ELSE b

\* A bucket that refills without a cap.
RefillUncapped(tok, time_passed, c) == tok + time_passed * c

\* Lines 39-42: refill_rate = rate_limit / 60.0 per second, capped.
Refill(tok, time_passed, c) == Min(FullBucket(c), tok + time_passed * c)
\* Lines 45-46.
HasToken(tok) == tok >= SecondsPerMinute

\* A limiter that hands out tokens without taking them.
ConsumeNothing(tok) == tok

\* Line 46.
Consume(tok) == tok - SecondsPerMinute
\* A caller that waits for the tokens of the callers before it too.
WaitTimeInTurn(tok) == 2 * SecondsPerMinute - tok

\* Line 51: (1.0 - tokens) / refill_rate, times rate_limit.
WaitTime(tok) == SecondsPerMinute - tok

PcAfterWait(t) == IF op[t] = "call_llm" THEN "llm_call" ELSE "done"
LocalAfterWait(t, l) ==
    IF op[t] = "call_llm"
       THEN [Local0 EXCEPT !.key = l.key, !.yaml_response = l.yaml_response,
                           !.request = l.request]
    ELSE Kept(l)

BeginWait(t, i) ==
    /\ pc[t] \in Ready
    /\ i \in made
    /\ pc' = [pc EXCEPT ![t] = "wait"]
    /\ op' = [op EXCEPT ![t] = "wait_if_needed"]
    /\ self' = [self EXCEPT ![t] = i]
    /\ local' = [local EXCEPT ![t] = Local0]
    /\ UNCHANGED <<clock, config, engine, store, lock, bucket, rl_lock, ret>>

\* A limiter that throttles even without a rate limit.
UnlimitedNever(r) == FALSE

\* Line 31: `if self._rate_limit is None`.
Unlimited(r) == r = PyNone

\* Lines 31-35: return when unlimited; else take the lock and read the clock.
WaitEnter(t) ==
    /\ pc[t] = "wait"
    /\ IF Unlimited(rate_limit[self[t]])
          THEN /\ pc' = [pc EXCEPT ![t] = PcAfterWait(t)]
               /\ ret' = [ret EXCEPT ![t] = PyNone]
               /\ local' = [local EXCEPT ![t] = LocalAfterWait(t, local[t])]
               /\ UNCHANGED rl_lock
          ELSE /\ rl_lock[self[t]] = "free"
               /\ rl_lock' = [rl_lock EXCEPT ![self[t]] = t]
               /\ pc' = [pc EXCEPT ![t] = "wait_refill"]
               /\ local' = [local EXCEPT ![t].now = clock]
               /\ UNCHANGED ret
    /\ UNCHANGED <<clock, config, engine, store, lock, bucket, op, self>>

\* A limiter class that keeps one bucket for all its objects.
PoolOfClass(i) == "A"

\* __init__, lines 23-24: _tokens and _last_update are attributes of the
\* object: limiter i has the bucket i.
Pool(i) == i

\* The bucket was emptied at time `at`; n calls returned without sleeping since.
Emptied(at) == [on |-> TRUE, at |-> at, n |-> 0]
Counted(m) == IF m.on THEN [m EXCEPT !.n = m.n + 1] ELSE m

\* A limiter that sleeps inside its `with` block.
LockKeptAsleep(t, has_token) == IF has_token THEN "free" ELSE t

\* Lines 48 and 51-54: the `with self._lock` block ends at the return and
\* before time.sleep: either way the caller leaves the lock.
LockAfter(t, has_token) == "free"

\* Lines 36-51, under the lock: refill; with a token, take it and return;
\* without, work out the wait, leave the lock and sleep.
WaitRefill(t) ==
    /\ pc[t] = "wait_refill"
    /\ LET i == Pool(self[t])
           c == rate_limit[self[t]].n
           now == local[t].now
           refilled == Refill(tokens[i], now - last_update[i], c)
       IN IF HasToken(refilled)
             THEN /\ tokens' = [tokens EXCEPT ![i] = Consume(refilled)]
                  /\ last_update' = [last_update EXCEPT ![i] = now]
                  /\ fast' = [fast EXCEPT ![i] = fast[i] + 1]
                  /\ mark' = [mark EXCEPT ![i] =
                        IF Consume(refilled) = 0 THEN Emptied(now) ELSE Counted(mark[i])]
                  /\ pc' = [pc EXCEPT ![t] = PcAfterWait(t)]
                  /\ ret' = [ret EXCEPT ![t] = PyNone]
                  /\ local' = [local EXCEPT ![t] = LocalAfterWait(t, local[t])]
             ELSE /\ tokens' = [tokens EXCEPT ![i] = refilled]
                  /\ pc' = [pc EXCEPT ![t] = "sleep"]
                  /\ local' = [local EXCEPT ![t].wait_time = WaitTime(refilled),
                                            ![t].slept_from = clock]
                  /\ UNCHANGED <<last_update, fast, mark, ret>>
    /\ rl_lock' = [rl_lock EXCEPT ![self[t]] =
                      LockAfter(t, HasToken(Refill(tokens[Pool(self[t])],
                                                   local[t].now - last_update[Pool(self[t])],
                                                   rate_limit[self[t]].n)))]
    /\ UNCHANGED <<clock, config, engine, store, lock, op, self>>

\* Line 54: time.sleep(wait_time) ends once wait_time seconds have passed.
Rested(t) == (clock - local[t].slept_from) * rate_limit[self[t]].n >= local[t].wait_time
WakeUp(t) ==
    /\ pc[t] = "sleep"
    /\ Rested(t)
    /\ pc' = [pc EXCEPT ![t] = "wait_reset"]
    /\ UNCHANGED <<clock, config, engine, store, lock, bucket, rl_lock, op, self, local, ret>>

\* Lines 57-59, under the lock again.
WaitReset(t) ==
    /\ pc[t] = "wait_reset"
    /\ rl_lock[self[t]] = "free"
    /\ tokens' = [tokens EXCEPT ![Pool(self[t])] = 0]
    /\ last_update' = [last_update EXCEPT ![Pool(self[t])] = clock]
    /\ mark' = [mark EXCEPT ![Pool(self[t])] = Emptied(clock)]
    /\ pc' = [pc EXCEPT ![t] = PcAfterWait(t)]
    /\ ret' = [ret EXCEPT ![t] = PyNone]
    /\ local' = [local EXCEPT ![t] = LocalAfterWait(t, local[t])]
    /\ UNCHANGED <<clock, config, engine, store, lock, fast, rl_lock, op, self>>

\* ---------------------------------------------------- LLMNode.call_llm
\* What the external reasoning call may hand back: a parsed mapping, raw
\* text, or a failure.
Responses == Payloads \cup {Text(<<"x">>), PyExc("Exception")}

\* Lines 72-76: the key of both prompts, then the cache lookup.
BeginCallLLM(t, i, system_prompt, prompt, yaml_response) ==
    /\ pc[t] \in Ready
    /\ i \in made
    /\ pc' = [pc EXCEPT ![t] = "get"]
    /\ op' = [op EXCEPT ![t] = "call_llm"]
    /\ self' = [self EXCEPT ![t] = i]
    /\ local' = [local EXCEPT ![t] =
          [Local0 EXCEPT !.key = generate_key(CacheInput(system_prompt, prompt)),
                         !.yaml_response = yaml_response,
                         !.request = <<system_prompt, prompt>>]]
    /\ UNCHANGED <<clock, config, engine, store, lock, bucket, rl_lock, ret>>

\* A call_llm that stores every mapping, asked for as YAML or not.
CacheableAnyMapping(yaml_response, result) == result.t = "dict"

\* Line 95: `if yaml_response and isinstance(result, dict)`.
Cacheable(yaml_response, result) == yaml_response /\ result.t = "dict"

\* Lines 85-98: the external call; its result is stored when it is a
\* mapping asked for as YAML, and returned.
LlmCall(t, result) ==
    /\ pc[t] = "llm_call"
    /\ IF result.t = "exc"
          THEN /\ pc' = [pc EXCEPT ![t] = "raised"]
               /\ ret' = [ret EXCEPT ![t] = result]
               /\ local' = [local EXCEPT ![t] = Kept(local[t])]
       ELSE IF Cacheable(local[t].yaml_response, result)
          THEN /\ pc' = [pc EXCEPT ![t] = "set"]
               /\ local' = [local EXCEPT ![t].value = result, ![t].result = result]
               /\ UNCHANGED ret
       ELSE /\ pc' = [pc EXCEPT ![t] = "done"]
            /\ ret' = [ret EXCEPT ![t] = result]
            /\ local' = [local EXCEPT ![t] = Kept(local[t])]
    /\ UNCHANGED <<clock, config, engine, store, lock, bucket, rl_lock, op, self>>

\* ------------------------------------------------------- WorkflowConfig
\* config.py 202-209: the defaults of max_retries and retry_wait.
DefaultMaxRetries == 3
DefaultRetryWait == 2
DefaultWorkflow == [max_retries |-> DefaultMaxRetries, retry_wait |-> DefaultRetryWait]
WorkflowConfigs == [max_retries : 0..MaxRetries, retry_wait : {0, DefaultRetryWait}]

\* ------------------------------------------------------------- results
\* exec_res.get(k, default), as post reads the response.
GetOr(d, k, default) == IF DictHas(d, k) THEN DictGet(d, k) ELSE default

\* models.py 79-105: the fields pydantic accepts for a result: met a bool,
\* reasoning a str, confidence a number from 0.0 to 1.0.
Validates(r) ==
    /\ r.met.t = "bool"
    /\ r.reasoning.t = "str"
    /\ r.confidence.t = "num"
    /\ r.confidence.n >= 0
    /\ r.confidence.n <= 1

\* criterion.py 61-67 and subcriterion.py 76-82: the result built from the
\* response, a missing field taking its default.
ResultOf(id, exec_res) ==
    [id |-> id,
     met |-> GetOr(exec_res, "met", PyBool(FALSE)),
     reasoning |-> GetOr(exec_res, "reasoning", PyStr("")),
     confidence |-> GetOr(exec_res, "confidence", PyNum(0))]

\* The structured result of the reasoning collaborator with verdict m.
Verdict(m) ==
    PyDict({<<"met", PyBool(m)>>, <<"reasoning", PyStr("r")>>, <<"confidence", PyNum(1)>>})

\* What the reasoning call may hand a criterion node: a structured result,
\* a mapping with fields missing or a confidence out of range, raw text, or
\* a failure.
VerdictResponses == {
    Verdict(TRUE),
    Verdict(FALSE),
    PyDict({}),
    PyDict({<<"met", PyBool(TRUE)>>}),
    PyDict({<<"met", PyBool(TRUE)>>, <<"reasoning", PyStr("r")>>, <<"confidence", PyNum(2)>>}),
    Text(<<"x">>),
    PyExc("Exception") }

\* ------------------------------------------------------------ node runs
\* LogicOperator, models.py 43-47.
LogicOperators == {"all", "any"}
\* models.py 59-62: sub_logic: LogicOperator | None, None by default.
SubLogics == LogicOperators \cup {"none"}
NoPolicy == [sub_logic |-> "all", verdicts |-> <<>>]
Policies ==
    {[sub_logic |-> o, verdicts |-> v] :
        o \in SubLogics, v \in UNION {[1..n -> BOOLEAN] : n \in 1..MaxSubs}}

Node0 == [kind |-> "none", phase |-> "off", cur_retry |-> 0, failed_at |-> 0,
          exec_res |-> PyNone, error |-> PyNone, label |-> "none", idx |-> 0,
          nid |-> "none", key |-> "none", prep_res |-> PyNone]
\* What a run is given before its first node: the text, the parsed policy
\* and the policy context.
InputKeys == {"input_text", "parsed_policy", "policy_context"}
\* A shared store holding the inputs only: no result key yet.
Shared0 == [inputs |-> InputKeys, keys |-> {}, criterion_results |-> {},
            sub_criterion_results |-> {},
            sub_order |-> <<>>, outputs |-> {}, writes |-> <<>>]

\* models.py 219-238: a WorkflowDefinition is a list of NodeConfig (id, type,
\* params, routes) and a start node id.  Here the list has one or two nodes
\* with the ids A and B, the one parameter is the key the node writes its
\* result under (the criterion id, or the output_key), and a routing table
\* has at most one entry.
NodeIds == {"A", "B"}
Undefined == "Z"
NodeTypes == {"CriterionEvaluationNode", "ConfigurableOutputNode"}
UnknownType == "NoSuchNode"
StoreKeys == {"k1", "k2"}
Labels == {"default", "completed"}
RouteTables == {{}} \cup {{<<l, x>>} : l \in Labels, x \in NodeIds \cup {Undefined}}
NodeConfigs(id, keys) ==
    [id : {id}, type : NodeTypes \cup {UnknownType}, key : keys, routes : RouteTables]
WorkflowDefinitions ==
    {[nodes |-> ns, start_node |-> st] :
        ns \in {<<a>> : a \in NodeConfigs("A", {"k1"})} \cup
               {<<a, b>> : a \in NodeConfigs("A", {"k1"}), b \in NodeConfigs("B", StoreKeys)},
        st \in NodeIds \cup {Undefined}}
NoDefinition == [nodes |-> <<>>, start_node |-> "none"]
NoGraph == [nodes |-> {}, start_node |-> "none"]
Flow0 == [definition |-> NoDefinition, graph |-> NoGraph, errors |-> {},
          current |-> "none", trail |-> <<>>, status |-> "new"]

TheCriterion == "c1"

\* A constructor that asks for one attempt more than configured.
MaxRetriesOneMore(cfg) == cfg.max_retries + 1

\* llm_node.py 36, criterion.py 32, subcriterion.py 43: the constructors
\* hand Node.__init__ max_retries = config.max_retries ...
MaxRetriesOf(cfg) == cfg.max_retries
\* ... and no wait: the node keeps the delay Node.__init__ defaults to.
NodeWait(cfg) == 0

\* The retry behaviour of the Node base class: attempts are numbered from 0
\* in cur_retry.
AttemptsRemain(cur_retry, max_retries) == cur_retry < max_retries
IsLastAttempt(cur_retry, max_retries) == cur_retry = max_retries - 1

\* A DeterministicNode subclass calls super().__init__() with no argument
\* (test_base_node.py 40-42) and so has the single attempt Node defaults to.
DefaultNodeRetries == 1
NodeRetries(kind, cfg) ==
    IF kind = "deterministic" THEN DefaultNodeRetries ELSE MaxRetriesOf(cfg)

Idle == {"off", "ok", "failed", "end"}

\* A workflow run starts on a node of the given kind: an LLMNode subclass
\* whose exec delegates to call_llm ("llm"), or a CriterionEvaluationNode
\* ("criterion").  prep reads the store and changes nothing.
RunBegin(t, kind, i) ==
    /\ node[t].phase \in Idle
    /\ pc[t] \in Ready
    /\ i \in made
    /\ node' = [node EXCEPT ![t] =
          [Node0 EXCEPT !.kind = kind, !.phase = "exec", !.key = TheCriterion]]
    /\ shared' = [shared EXCEPT ![t] = Shared0]
    /\ self' = [self EXCEPT ![t] = i]
    /\ UNCHANGED <<clock, config, settings, flow, store, lock, bucket, rl_lock,
                   pc, op, local, ret>>

\* An attempt of exec starts, the first or, once the delay after a failed
\* one has passed, the next.  The exec of an LLMNode subclass calls
\* self.call_llm (llm_node.py 53-77); that of a criterion or sub-criterion
\* node calls the reasoning collaborator directly (criterion.py 44-57,
\* subcriterion.py 58-72).  With no attempt to make, exec yields None.
ExecStart(t) ==
    /\ node[t].phase = "exec"
    /\ pc[t] \in Ready
    /\ node[t].cur_retry > 0 => clock - node[t].failed_at >= NodeWait(workflow)
    /\ IF ~AttemptsRemain(node[t].cur_retry, NodeRetries(node[t].kind, workflow))
          THEN /\ node' = [node EXCEPT ![t].phase = "post", ![t].exec_res = PyNone]
               /\ UNCHANGED <<pc, op, local>>
       ELSE IF node[t].kind = "llm"
          THEN /\ node' = [node EXCEPT ![t].phase = "attempt"]
               /\ pc' = [pc EXCEPT ![t] = "get"]
               /\ op' = [op EXCEPT ![t] = "call_llm"]
               /\ local' = [local EXCEPT ![t] =
                     [Local0 EXCEPT !.key = generate_key(CacheInput(PyNone, Text(<<"p">>)))]]
       ELSE /\ node' = [node EXCEPT ![t].phase = "attempt"]
            /\ pc' = [pc EXCEPT ![t] =
                  IF node[t].kind = "deterministic" THEN "det_exec" ELSE "direct_call"]
            /\ op' = [op EXCEPT ![t] = "exec"]
            /\ local' = [local EXCEPT ![t] = Local0]
    /\ UNCHANGED <<clock, config, settings, flow, shared, store, lock, bucket,
                   rl_lock, self, ret>>

\* criterion.py 51-57, subcriterion.py 66-72: the reasoning call returns
\* its result to exec, or fails.
DirectCall(t, result) ==
    /\ pc[t] = "direct_call"
    /\ pc' = [pc EXCEPT ![t] = IF result.t = "exc" THEN "raised" ELSE "done"]
    /\ ret' = [ret EXCEPT ![t] = result]
    /\ UNCHANGED <<clock, config, engine, store, lock, bucket, rl_lock, op, self, local>>

\* test_base_node.py 44-46: the exec of ConfigurableOutputNode computes its
\* result from the input text alone.
DetExec(t) ==
    /\ pc[t] = "det_exec"
    /\ pc' = [pc EXCEPT ![t] = "done"]
    /\ ret' = [ret EXCEPT ![t] =
          PyDict({<<"data", IF node[t].prep_res = PyNone THEN PyStr("p")
                            ELSE DictGet(node[t].prep_res, "input_text")>>})]
    /\ UNCHANGED <<clock, config, engine, store, lock, bucket, rl_lock, op, self, local>>

\* The attempt is over.  Its result goes to post; a failure is retried
\* while attempts remain, and the failure of the last attempt ends the run.
ExecEnd(t) ==
    /\ node[t].phase = "attempt"
    /\ pc[t] \in {"done", "raised"}
    /\ node' = [node EXCEPT ![t] =
          IF pc[t] = "done"
             THEN [@ EXCEPT !.phase = "post", !.exec_res = ret[t]]
          ELSE IF IsLastAttempt(@.cur_retry, NodeRetries(@.kind, workflow))
             THEN [@ EXCEPT !.phase = "failed", !.error = ret[t]]
          ELSE [@ EXCEPT !.phase = "exec", !.cur_retry = @ + 1, !.failed_at = clock]]
    /\ UNCHANGED <<clock, config, settings, flow, shared, store, lock, bucket,
                   rl_lock, pc, op, self, local, ret>>

\* subcriterion.py 94: self.sub_logic == LogicOperator.ANY.
IsAny(sub_logic) == sub_logic = "any"

\* A comparison that takes a missing operator for ALL.
IsAllOrUnset(sub_logic) == sub_logic # "any"

\* subcriterion.py 97: self.sub_logic == LogicOperator.ALL.
IsAll(sub_logic) == sub_logic = "all"

\* An evaluator that never stops early.
SubActionNeverStops(sub_logic, met) == "default"

\* subcriterion.py 93-102: the action a sub-criterion node returns.
SubAction(sub_logic, met) ==
    IF IsAny(sub_logic) /\ met THEN "satisfied"
    ELSE IF IsAll(sub_logic) /\ ~met THEN "failed"
    ELSE "default"

\* criterion.py 69-71: shared["criterion_results"][criterion.id] = result.
CommitCriterion(sh, r) ==
    [sh EXCEPT !.keys = @ \cup {"criterion_results"},
               !.criterion_results = {e \in @ : e[1] # r.id} \cup {<<r.id, r>>}]

\* A post that replaces the store by its own result.
CommitOutputAlone(sh, output_key, exec_res) ==
    IF output_key = "none" THEN sh
    ELSE [Shared0 EXCEPT !.keys = {output_key},
                         !.outputs = {<<output_key, exec_res>>},
                         !.writes = sh.writes]

\* base.py 90-92: shared[output_key] = exec_res when output_key is set.
CommitOutput(sh, output_key, exec_res) ==
    IF output_key = "none" THEN sh
    ELSE [sh EXCEPT !.keys = @ \cup {output_key},
                    !.outputs = {e \in @ : e[1] # output_key} \cup {<<output_key, exec_res>>}]

\* test_base_node.py 48-50: get_action of ConfigurableOutputNode.
get_action(exec_res) == "completed"

\* The assignments made to the store in this run: which entry, by which node.
Logged(sh, entry, nid) == [sh EXCEPT !.writes = Append(@, <<entry, nid>>)]

\* A store whose mapping lists a new key first.
CommitSubCriterionFirst(sh, parent, r) ==
    [sh EXCEPT !.keys = @ \cup {"sub_criterion_results"},
               !.sub_criterion_results =
                   {e \in @ : ~(e[1] = parent /\ e[2] = r.id)} \cup {<<parent, r.id, r>>},
               !.sub_order = <<<<parent, r.id>>>> \o @]

\* subcriterion.py 85-91:
\* shared["sub_criterion_results"][parent_id][sub_criterion.id] = result.
\* sub_order is the order of the keys in the mapping: a new key goes last,
\* a key already there keeps its place.
CommitSubCriterion(sh, parent, r) ==
    [sh EXCEPT !.keys = @ \cup {"sub_criterion_results"},
               !.sub_criterion_results =
                   {e \in @ : ~(e[1] = parent /\ e[2] = r.id)} \cup {<<parent, r.id, r>>},
               !.sub_order = IF \E i \in DOMAIN @ : @[i] = <<parent, r.id>>
                                THEN @ ELSE Append(@, <<parent, r.id>>)]

\* post of the node.  criterion.py 59-73 and subcriterion.py 74-102 read
\* the fields of exec_res with .get and a default, build the result model
\* (which validates) and store it; an error here is outside the retry loop.
\* An LLMNode subclass of this model stores nothing.
Post(t) ==
    /\ node[t].phase = "post"
    /\ LET n == node[t]
           id == IF n.kind = "criterion" THEN n.key ELSE n.idx
           r == ResultOf(id, n.exec_res)
       IN IF n.kind = "llm"
             THEN /\ node' = [node EXCEPT ![t].phase = "ok", ![t].label = "default"]
                  /\ UNCHANGED shared
          ELSE IF n.kind = "deterministic"
             THEN /\ node' = [node EXCEPT ![t].phase = "ok",
                                          ![t].label = get_action(n.exec_res)]
                  /\ shared' = [shared EXCEPT ![t] =
                        IF n.key = "none" THEN @
                        ELSE Logged(CommitOutput(@, n.key, n.exec_res), <<n.key>>, n.nid)]
          ELSE IF n.exec_res.t # "dict"
             THEN /\ node' = [node EXCEPT ![t].phase = "failed",
                                          ![t].error = PyExc("AttributeError")]
                  /\ UNCHANGED shared
          ELSE IF ~Validates(r)
             THEN /\ node' = [node EXCEPT ![t].phase = "failed",
                                          ![t].error = PyExc("ValidationError")]
                  /\ UNCHANGED shared
          ELSE IF n.kind = "criterion"
             THEN /\ node' = [node EXCEPT ![t].phase = "ok", ![t].label = "default"]
                  /\ shared' = [shared EXCEPT ![t] =
                        Logged(CommitCriterion(@, r), <<"criterion_results", r.id>>, n.nid)]
          ELSE /\ node' = [node EXCEPT ![t].phase = "ok",
                                       ![t].label = SubAction(policy.sub_logic, r.met.b)]
               /\ shared' = [shared EXCEPT ![t] =
                     Logged(CommitSubCriterion(@, TheCriterion, r),
                            <<"sub_criterion_results", TheCriterion, r.id>>, n.nid)]
    /\ UNCHANGED <<clock, config, settings, flow, store, lock, bucket, rl_lock,
                   pc, op, self, local, ret>>

\* ---------------------------------------------------------------- prep
\* The value of an input of the run, as the nodes read it.
InputValue(k) == PyStr(IF k = "input_text" THEN "p" ELSE "d")

\* shared[k]: the value, or KeyError.
Subscript(sh, k) == IF k \in sh.inputs THEN InputValue(k) ELSE PyExc("KeyError")
\* shared.get(k, ""): the value, or the default.
GetOrEmpty(sh, k) == IF k \in sh.inputs THEN InputValue(k) ELSE PyStr("")

\* A read that stores the default it falls back to, as setdefault does.
AfterSetdefault(sh, k) == [sh EXCEPT !.inputs = @ \cup {k}]

\* base.py 57, criterion.py 39-41, subcriterion.py 52-55: shared[k] and
\* shared.get(k, "") leave the store as it is.
AfterRead(sh, k) == sh

\* base.py 57: {input_key: shared.get(input_key, "")}, the input key being
\* the default "input_text" (base.py 40).
DeterministicPrep(sh) ==
    [res |-> PyDict({<<"input_text", GetOrEmpty(sh, "input_text")>>}),
     store |-> AfterRead(sh, "input_text")]

\* criterion.py 36-42: shared["input_text"], then
\* shared["parsed_policy"].description; the first missing key raises.
CriterionPrep(sh) ==
    LET text == Subscript(sh, "input_text")
        pol == Subscript(AfterRead(sh, "input_text"), "parsed_policy")
    IN IF text.t = "exc" THEN [res |-> text, store |-> AfterRead(sh, "input_text")]
       ELSE IF pol.t = "exc"
          THEN [res |-> pol,
                store |-> AfterRead(AfterRead(sh, "input_text"), "parsed_policy")]
       ELSE [res |-> PyDict({<<"input_text", text>>, <<"policy_context", pol>>}),
             store |-> AfterRead(AfterRead(sh, "input_text"), "parsed_policy")]

\* subcriterion.py 49-56: shared["input_text"], then
\* shared.get("policy_context", "").
SubCriterionPrep(sh) ==
    LET text == Subscript(sh, "input_text")
        ctx == GetOrEmpty(AfterRead(sh, "input_text"), "policy_context")
    IN IF text.t = "exc" THEN [res |-> text, store |-> AfterRead(sh, "input_text")]
       ELSE [res |-> PyDict({<<"input_text", text>>, <<"policy_context", ctx>>}),
             store |-> AfterRead(AfterRead(sh, "input_text"), "policy_context")]

PrepOf(kind, sh) ==
    CASE kind = "deterministic" -> DeterministicPrep(sh)
      [] kind = "criterion" -> CriterionPrep(sh)
      [] kind = "subcriterion" -> SubCriterionPrep(sh)

\* A node of the given kind is run on the store as it stands: prep reads
\* its inputs; an exception in prep ends the run of the node, otherwise
\* exec follows.  key is the output_key of a deterministic node.
Prep(t, kind, key) ==
    /\ node[t].phase \in Idle
    /\ pc[t] \in Ready
    /\ Len(shared[t].writes) < MaxVisits
    /\ LET p == PrepOf(kind, shared[t])
       IN /\ node' = [node EXCEPT ![t] =
                 [Node0 EXCEPT !.kind = kind,
                               !.key = IF kind = "deterministic" THEN key ELSE TheCriterion,
                               !.idx = IF kind = "subcriterion" THEN 1 ELSE 0,
                               !.phase = IF p.res.t = "exc" THEN "failed" ELSE "exec",
                               !.error = IF p.res.t = "exc" THEN p.res ELSE PyNone,
                               !.prep_res = p.res]]
          /\ shared' = [shared EXCEPT ![t] = p.store]
    /\ UNCHANGED <<clock, config, settings, flow, store, lock, bucket, rl_lock,
                   pc, op, self, local, ret>>

\* The evaluation of a criterion with sub-criteria starts on the node of
\* the first declared sub-criterion, the shared store holding no results.
EvalBegin(t) ==
    /\ node[t].phase \in Idle
    /\ pc[t] \in Ready
    /\ Len(policy.verdicts) >= 1
    /\ node' = [node EXCEPT ![t] =
          [Node0 EXCEPT !.kind = "subcriterion", !.phase = "exec", !.idx = 1]]
    /\ shared' = [shared EXCEPT ![t] = Shared0]
    /\ UNCHANGED <<clock, config, settings, flow, store, lock, bucket, rl_lock,
                   pc, op, self, local, ret>>

\* The routing of the sub-criterion nodes: "default" leads to the node of
\* the next declared sub-criterion; "satisfied", "failed" and the "default"
\* of the last node have no successor and end the evaluation.
Route(t) ==
    /\ node[t].kind = "subcriterion"
    /\ node[t].phase = "ok"
    /\ node' = [node EXCEPT ![t] =
          IF @.label = "default" /\ @.idx < Len(policy.verdicts)
             THEN [Node0 EXCEPT !.kind = "subcriterion", !.phase = "exec", !.idx = node[t].idx + 1]
          ELSE [@ EXCEPT !.phase = "end"]]
    /\ UNCHANGED <<clock, config, settings, flow, shared, store, lock, bucket,
                   rl_lock, pc, op, self, local, ret>>

\* The sub-criteria of the parent that have a result in the store.
Evaluated(sh, parent) == {e[2] : e \in {x \in sh.sub_criterion_results : x[1] = parent}}
\* The ids of the parent's sub-results in the order of the mapping.
RECURSIVE IdsOf(_, _)
IdsOf(order, parent) ==
    IF order = <<>> THEN <<>>
    ELSE IF Head(order)[1] = parent THEN <<Head(order)[2]>> \o IdsOf(Tail(order), parent)
    ELSE IdsOf(Tail(order), parent)

SubResult(sh, parent, id) ==
    (CHOOSE e \in sh.sub_criterion_results : e[1] = parent /\ e[2] = id)[3]

\* The parent's met: under ANY some produced sub-result is met, under ALL
\* every produced sub-result is.
ParentMet(sub_logic, sh, parent) ==
    IF sub_logic = "any"
       THEN \E id \in Evaluated(sh, parent) : SubResult(sh, parent, id).met.b
    ELSE \A id \in Evaluated(sh, parent) : SubResult(sh, parent, id).met.b

\* ------------------------------------------------------ confidence gate
\* Confidences and thresholds are counted in hundredths: Unit is 1.0.
Unit == 100
Thresholds == {0 - 10, 0, 40, 49, 50, 60, 70, 80, Unit, 150}
DefaultGate == [high |-> 80, low |-> 50]
Gate0 == [status |-> "new", high |-> 0, low |-> 0, error |-> "none",
          confidence |-> 0, level |-> "none"]

\* config.py 65-76: ge=0.0, le=1.0 on each threshold.
InRange(x) == x >= 0 /\ x <= Unit

\* A validator that accepts any order.
OrderViolatedNever(high, low) == FALSE

\* config.py 91: if self.high < self.low.
OrderViolated(high, low) == high < low

\* config.py 60-93: the fields are validated first; validate_threshold_order
\* runs after them, and only when they passed.
ConfidenceGateConfig(high, low) ==
    IF ~InRange(high) \/ ~InRange(low)
       THEN [Gate0 EXCEPT !.status = "error", !.error = "ValidationError"]
    ELSE IF OrderViolated(high, low)
       THEN [Gate0 EXCEPT !.status = "error",
                          !.error = "high_threshold must be >= low_threshold"]
    ELSE [Gate0 EXCEPT !.status = "ok", !.high = high, !.low = low]

\* The configuration is loaded, once, from the two settings.
LoadGate(high, low) ==
    /\ gate.status = "new"
    /\ gate' = ConfidenceGateConfig(high, low)
    /\ UNCHANGED <<clock, config, workflow, policy, node, shared, flow, store, lock,
                   bucket, rl_lock, pc, op, self, local, ret>>

\* A classification that takes the high threshold as exclusive.
classifyAbove(confidence, high, low) ==
    IF confidence > high THEN "high" ELSE IF confidence < low THEN "low" ELSE "medium"

\* The level of a confidence against the thresholds (models.py 111-116).
classify(confidence, high, low) ==
    IF confidence >= high THEN "high" ELSE IF confidence < low THEN "low" ELSE "medium"

\* A confidence is classified against the loaded configuration.
Classify(confidence) ==
    /\ gate.status = "ok"
    /\ gate' = [gate EXCEPT !.confidence = confidence,
                            !.level = classify(confidence, gate.high, gate.low)]
    /\ UNCHANGED <<clock, config, workflow, policy, node, shared, flow, store, lock,
                   bucket, rl_lock, pc, op, self, local, ret>>

\* ------------------------------------------- graph builder and engine
\* The ids the definition defines, and what makes its construction fail:
\* a type tag that names no node implementation, a start node id that is
\* not defined, a route to a node id that is not defined.
Defined(d) == {d.nodes[i].id : i \in DOMAIN d.nodes}
BuildErrors(d) ==
    {<<"type", d.nodes[i].type>> : i \in {j \in DOMAIN d.nodes : d.nodes[j].type \notin NodeTypes}}
    \cup {<<"start_node", x>> : x \in {d.start_node} \ Defined(d)}
    \cup UNION {{<<"route", e[2]>> : e \in {r \in d.nodes[i].routes : r[2] \notin Defined(d)}} :
                   i \in DOMAIN d.nodes}

\* A builder that wires what it can and leaves the rest out.
BuiltPartial(d) ==
    [nodes |-> {d.nodes[i] : i \in {j \in DOMAIN d.nodes : d.nodes[j].type \in NodeTypes}},
     start_node |-> d.start_node]

\* The graph the builder returns for a definition: every node, wired, or
\* none at all.
Built(d) ==
    IF BuildErrors(d) = {} THEN [nodes |-> {d.nodes[i] : i \in DOMAIN d.nodes},
                                 start_node |-> d.start_node]
    ELSE NoGraph

\* Construction, once per definition.
Build ==
    /\ flow.status = "new"
    /\ flow.definition # NoDefinition
    /\ flow' = [flow EXCEPT !.graph = Built(flow.definition),
                            !.errors = BuildErrors(flow.definition),
                            !.status = IF BuildErrors(flow.definition) = {}
                                          THEN "built" ELSE "rejected"]
    /\ UNCHANGED <<clock, config, settings, node, shared, store, lock, bucket,
                   rl_lock, pc, op, self, local, ret>>

ConfigOf(g, nid) == CHOOSE c \in g.nodes : c.id = nid
KindOf(type) == IF type = "CriterionEvaluationNode" THEN "criterion" ELSE "deterministic"

\* The node object of a graph node, about to run.
Entered(g, nid) ==
    [Node0 EXCEPT !.kind = KindOf(ConfigOf(g, nid).type), !.phase = "exec",
                  !.nid = nid, !.key = ConfigOf(g, nid).key]

\* A run starts: the current node is the start node, the store is empty.
FlowStart(t) ==
    /\ flow.status = "built"
    /\ pc[t] \in Ready
    /\ flow' = [flow EXCEPT !.status = "running", !.current = flow.graph.start_node,
                            !.trail = <<flow.graph.start_node>>]
    /\ node' = [node EXCEPT ![t] = Entered(flow.graph, flow.graph.start_node)]
    /\ shared' = [shared EXCEPT ![t] = Shared0]
    /\ UNCHANGED <<clock, config, settings, store, lock, bucket, rl_lock,
                   pc, op, self, local, ret>>

\* The routes of the current node for a label.
Targets(g, nid, label) == {e[2] : e \in {r \in ConfigOf(g, nid).routes : r[1] = label}}

\* An engine that does not enter a node twice.
SuccessorsUnvisited(f, to) == {x \in to : \A i \in DOMAIN f.trail : f.trail[i] # x}

\* The engine keeps no record of the nodes it ran and counts no steps: the
\* target of the label is the successor, visited before or not.
Successors(f, to) == to

\* A run that goes on after the label has no route.
AfterNoRouteFails(f) == [f EXCEPT !.status = "failed"]

\* The run halts: the label of the node that ran has no route.
AfterNoRoute(f) == [f EXCEPT !.status = "halted"]

\* The current node has run its three phases: the engine looks its label up
\* in its routing table, and moves to the target or halts.
Advance(t) ==
    /\ flow.status = "running"
    /\ node[t].phase = "ok"
    /\ LET to == Successors(flow, Targets(flow.graph, flow.current, node[t].label))
       IN IF to = {}
             THEN /\ flow' = AfterNoRoute(flow)
                  /\ UNCHANGED node
          ELSE /\ Len(flow.trail) < MaxVisits
               /\ \E nxt \in to :
                     /\ flow' = [flow EXCEPT !.current = nxt, !.trail = Append(@, nxt)]
                     /\ node' = [node EXCEPT ![t] = Entered(flow.graph, nxt)]
    /\ UNCHANGED <<clock, config, settings, shared, store, lock, bucket,
                   rl_lock, pc, op, self, local, ret>>

\* A run that goes on with the next node after a node failed.
AfterFailureSkips(f, label) ==
    IF Targets(f.graph, f.current, "default") = {} THEN [f EXCEPT !.status = "halted"]
    ELSE [f EXCEPT !.current = CHOOSE x \in Targets(f.graph, f.current, "default") : TRUE,
                   !.trail = Append(@, CHOOSE x \in Targets(f.graph, f.current, "default") : TRUE)]

\* The failure of the current node ends the run, as a failure.
AfterFailure(f, label) == [f EXCEPT !.status = "failed"]

\* The current node failed: its exception leaves the engine's loop.
FlowFail(t) ==
    /\ flow.status = "running"
    /\ node[t].phase = "failed"
    /\ flow' = AfterFailure(flow, node[t].label)
    /\ node' = [node EXCEPT ![t] = IF flow'.current = flow.current THEN @
                                   ELSE Entered(flow.graph, flow'.current)]
    /\ UNCHANGED <<clock, config, settings, shared, store, lock, bucket,
                   rl_lock, pc, op, self, local, ret>>

\* ---------------------------------------------------------------- time
Tick(seconds) ==
    /\ clock + seconds <= MaxTicks * seconds
    /\ clock' = clock + seconds
    /\ UNCHANGED <<config, engine, store, lock, bucket, rl_lock, pc, op, self, local, ret>>

\* ------------------------------------------------------ specifications
\* The state once the objects of `built` are constructed at time 0, with
\* the threads of `callers` about to call them.  The cache directory is as
\* the process finds it: missing, or holding at most one file that earlier
\* processes or other programs left.
InitInfra(built, callers, ttls, foreign, rates) ==
    /\ clock = 0
    /\ made = built
    /\ ttl \in [Insts -> ttls \cup {0}]
    /\ \A i \in Insts : IF i \in built THEN ttl[i] \in ttls ELSE ttl[i] = 0
    /\ preDir \in BOOLEAN
    /\ dirExists = DirAfterInit(preDir, ttl, built)
    /\ files \in [Keys -> {NoFile} \cup foreign]
    /\ ~preDir => \A k \in Keys : files[k] = NoFile
    /\ Cardinality({k \in Keys : files[k] # NoFile}) <= 1
    /\ lock = [i \in Insts |-> "free"]
    /\ lastSet = [k \in Keys |-> Never]
    /\ rate_limit \in [Insts -> rates \cup {PyNone}]
    /\ \A i \in Insts : IF i \in built THEN rate_limit[i] \in rates ELSE rate_limit[i] = PyNone
    /\ tokens = [i \in Insts |->
                    IF rate_limit[i] = PyNone THEN 0 ELSE FullBucket(rate_limit[i].n)]
    /\ last_update = [i \in Insts |-> 0]
    /\ rl_lock = [i \in Insts |-> "free"]
    /\ fast = [i \in Insts |-> 0]
    /\ mark = [i \in Insts |-> [on |-> FALSE, at |-> 0, n |-> 0]]
    /\ pc = [t \in Threads |-> IF t \in callers THEN "idle" ELSE "off"]
    /\ op = [t \in Threads |-> "none"]
    /\ self = [t \in Threads |-> "A"]
    /\ local = [t \in Threads |-> Local0]
    /\ ret = [t \in Threads |-> PyNone]

\* The workflow configuration and the policy of the process; no node runs yet.
InitEngine(workflows, policies) ==
    /\ workflow \in workflows
    /\ policy \in policies
    /\ node = [t \in Threads |-> Node0]
    /\ shared = [t \in Threads |-> Shared0]
    /\ flow = Flow0
    /\ gate = Gate0

\* A process that is given a workflow definition.
InitFlowOf(workflows, definitions) ==
    /\ workflow \in workflows
    /\ policy = NoPolicy
    /\ node = [t \in Threads |-> Node0]
    /\ shared = [t \in Threads |-> Shared0]
    /\ \E d \in definitions : flow = [Flow0 EXCEPT !.definition = d]
    /\ gate = Gate0

\* The objects alone, called directly: no workflow runs.
InitWith(built, callers, ttls, foreign, rates) ==
    /\ InitInfra(built, callers, ttls, foreign, rates)
    /\ InitEngine({DefaultWorkflow}, {NoPolicy})

GetSteps ==
    \/ \E t \in Threads : GetEnter(t)
    \/ \E t \in Threads : GetLoad(t)
    \/ \E t \in Threads : GetUnlink(t)

SetSteps ==
    \/ \E t \in Threads : SetEnter(t)
    \/ \E t \in Threads, opens \in BOOLEAN : SetOpen(t, opens)
    \/ \E t \in Threads, writes \in BOOLEAN : SetDump(t, writes)

WaitSteps ==
    \/ \E t \in Threads : WaitEnter(t)
    \/ \E t \in Threads : WaitRefill(t)
    \/ \E t \in Threads : WakeUp(t)
    \/ \E t \in Threads : WaitReset(t)

\* The key the cache runs store under.
TheKey == generate_key(CacheInput(PyNone, Text(<<"p">>)))

\* One CacheManager, one caller at a time.
NextCacheSeq ==
    \/ \E t \in Threads, i \in Insts : BeginGet(t, i, TheKey)
    \/ \E t \in Threads, i \in Insts, v \in Payloads : BeginSet(t, i, TheKey, v)
    \/ GetSteps
    \/ SetSteps
    \/ Tick(1)

InitCacheSeq == InitWith({"A"}, {"t1"}, 0..MaxTTL, ForeignFiles, {PyNone})
SpecCacheSeq == InitCacheSeq /\ [][NextCacheSeq]_vars

\* Keys are generated on two CacheManager objects, whatever their TTL and
\* whatever the directory holds, at different times.
KeyInputs == {<<>>, <<"p">>, <<"q">>, <<"p", "p">>}

NextKeys ==
    \/ \E t \in Threads, i \in Insts, prompt \in KeyInputs : GenerateKey(t, i, prompt)
    \/ Tick(1)

InitKeys == InitWith(Insts, Threads, {0, MaxTTL}, ForeignFiles, {PyNone})
SpecKeys == InitKeys /\ [][NextKeys]_vars

\* Two CacheManager objects over one directory, two concurrent callers,
\* within one second.
NextCache ==
    \/ \E t \in Threads, i \in Insts : BeginGet(t, i, TheKey)
    \/ \E t \in Threads, i \in Insts, v \in Payloads : BeginSet(t, i, TheKey, v)
    \/ GetSteps
    \/ SetSteps

InitCache == InitWith(Insts, Threads, {MaxTTL}, {}, {PyNone})
SpecCache == InitCache /\ [][NextCache]_vars

\* One RateLimiter, two concurrent callers.
Rates == {PyNum(c) : c \in Capacities}

NextLimiter ==
    \/ \E t \in Threads, i \in Insts : BeginWait(t, i)
    \/ WaitSteps
    \/ Tick(Interval)

InitLimiter == InitWith({"A"}, Threads, {0}, {}, Rates \cup {PyNone})
SpecLimiter == InitLimiter /\ [][NextLimiter]_vars

\* One LLMNode, one caller at a time.
NextLLM ==
    \/ \E t \in Threads, i \in Insts, p \in Prompts, y \in BOOLEAN :
          BeginCallLLM(t, i, PyNone, p, y)
    \/ GetSteps
    \/ \E t \in Threads, r \in Responses : LlmCall(t, r)
    \/ SetSteps
    \/ WaitSteps
    \/ Tick(Interval)

InitLLM == InitWith({"A"}, {"t1"}, {0, Interval}, {}, Rates \cup {PyNone})
SpecLLM == InitLLM /\ [][NextLLM]_vars

\* One workflow run at a time on one node: an LLMNode subclass or a
\* criterion node, under every WorkflowConfig of the bounds.
NodeKinds == {"llm", "criterion"}

NextNode ==
    \/ \E t \in Threads, k \in NodeKinds, i \in Insts : RunBegin(t, k, i)
    \/ \E t \in Threads : ExecStart(t)
    \/ GetSteps
    \/ \E t \in Threads : WaitEnter(t)
    \/ \E t \in Threads, r \in Responses : LlmCall(t, r)
    \/ SetSteps
    \/ \E t \in Threads, r \in VerdictResponses : DirectCall(t, r)
    \/ \E t \in Threads : ExecEnd(t)
    \/ \E t \in Threads : Post(t)
    \/ Tick(Interval)

InitNode ==
    /\ InitInfra({"A"}, {"t1"}, {0, Interval}, {}, {PyNone})
    /\ InitEngine(WorkflowConfigs, {NoPolicy})
SpecNode == InitNode /\ [][NextNode]_vars

\* The sub-criteria of one criterion, evaluated in one run; the reasoning
\* collaborator answers sub-criterion j with verdicts[j], or fails.
Answers(t) ==
    {PyExc("Exception")} \cup
       {Verdict(policy.verdicts[j]) : j \in {node[t].idx} \cap DOMAIN policy.verdicts}

\* subcriterion.py 66-72 with one of the answers for the node's sub-criterion.
SubCall(t, r) == r \in Answers(t) /\ DirectCall(t, r)

NextEval ==
    \/ \E t \in Threads : EvalBegin(t)
    \/ \E t \in Threads : ExecStart(t)
    \/ \E t \in Threads, r \in {Verdict(TRUE), Verdict(FALSE), PyExc("Exception")} :
          SubCall(t, r)
    \/ \E t \in Threads : ExecEnd(t)
    \/ \E t \in Threads : Post(t)
    \/ \E t \in Threads : Route(t)

InitEval ==
    /\ InitInfra({"A"}, {"t1"}, {0}, {}, {PyNone})
    /\ InitEngine({DefaultWorkflow}, Policies)
SpecEval == InitEval /\ [][NextEval]_vars

\* One workflow: its graph is built from a definition and, when the
\* construction succeeds, run once by the engine.
TwoAttempts == [max_retries |-> 2, retry_wait |-> 0]

NextFlow ==
    \/ Build
    \/ \E t \in Threads : FlowStart(t)
    \/ \E t \in Threads : ExecStart(t)
    \/ \E t \in Threads, r \in {Verdict(TRUE), Verdict(FALSE), PyExc("Exception")} :
          DirectCall(t, r)
    \/ \E t \in Threads : DetExec(t)
    \/ \E t \in Threads : ExecEnd(t)
    \/ \E t \in Threads : Post(t)
    \/ \E t \in Threads : Advance(t)
    \/ \E t \in Threads : FlowFail(t)

InitFlow ==
    /\ InitInfra({"A"}, {"t1"}, {0}, {}, {PyNone})
    /\ InitFlowOf({TwoAttempts}, WorkflowDefinitions)
SpecFlow == InitFlow /\ [][NextFlow]_vars

\* The confidence gate: a configuration is loaded from two settings, and
\* confidences are classified against it.
Confidences == {c \in Thresholds : InRange(c)}

NextGate ==
    \/ \E high, low \in Thresholds : LoadGate(high, low)
    \/ \E c \in Confidences : Classify(c)

InitGate == InitWith({"A"}, {"t1"}, {0}, {}, {PyNone})
SpecGate == InitGate /\ [][NextGate]_vars

\* ============================================================== claims
\* The record set(k, v) wrote, as it stands in the file.
EntryOf(s) ==
    Mapping(safe_dump(PyDict({<<"timestamp", PyNum(s.ts)>>, <<"result", s.value>>})))

\* File content that loads as a mapping with a numeric timestamp.
IsRecord(c) ==
    LET d == safe_load(c)
    IN /\ d.t = "dict"
       /\ DictHas(d, "timestamp")
       /\ DictGet(d, "timestamp").t = "num"

StoredAt(c) == DictGet(safe_load(c), "timestamp").n

\* A step on which thread t leaves the get it is in.
GetEnds(t) == op[t] = "get" /\ pc[t] \in {"get", "get_open", "get_unlink"} /\ pc'[t] \in Ready
\* A step on which the get thread t is in returns.
GetReturns(t) == GetEnds(t) /\ pc'[t] = "done"

\* C1 (as amended): with TTL > 0, when the most recent completed set(k, v)
\* wrote its entry and less than TTL seconds have passed since, get(k)
\* returns a value equal to v; when k was never stored, a get that returns
\* gives None.
C1_RoundTrip ==
    [][\A t \in Threads :
          (GetEnds(t) /\ ttl[self[t]] > 0) =>
             LET s == lastSet[local[t].key]
             IN /\ (s.st = "stored" /\ clock - s.ts < ttl[self[t]])
                      => (pc'[t] = "done" /\ ret'[t] = s.value)
                /\ (s.st = "never" /\ GetReturns(t)) => ret'[t] = PyNone]_vars

C1_Witness ==
    \E t \in Threads :
       /\ pc[t] = "done" /\ op[t] = "get" /\ ttl[self[t]] > 1
       /\ lastSet[local[t].key].st = "stored"
       /\ ret[t] = lastSet[local[t].key].value
       /\ local[t].age = PyNum(1)

\* C1 (as stated): get(k) returns the value of the most recent completed
\* set(k, v) while less than TTL seconds have passed, whether or not that set
\* managed to write.
C1_AsStated ==
    [][\A t \in Threads :
          (GetEnds(t) /\ ttl[self[t]] > 0) =>
             LET s == lastSet[local[t].key]
             IN (s.st \in {"stored", "failed"} /\ clock - s.ts < ttl[self[t]])
                   => (pc'[t] = "done" /\ ret'[t] = s.value)]_vars

\* C2: get never returns a payload whose age is TTL or more; an entry of
\* age TTL or more, age exactly TTL included, makes get return None, and the
\* file is gone once get has returned.
C2_NeverStale ==
    [][\A t \in Threads :
          LET c == files[local[t].key]
          IN /\ (GetReturns(t) /\ ret'[t] # PyNone)
                   => (IsRecord(c) /\ clock - StoredAt(c) < ttl[self[t]])
             /\ (pc[t] = "get_open" /\ pc'[t] # "get_open" /\ IsRecord(c)
                   /\ clock - StoredAt(c) >= ttl[self[t]])
                   => pc'[t] = "get_unlink"
             /\ (pc[t] = "get_unlink" /\ pc'[t] # "get_unlink")
                   => (ret'[t] = PyNone /\ files'[local[t].key] = NoFile)]_vars

C2_Witness ==
    \E t \in Threads :
       /\ pc[t] = "done" /\ op[t] = "get" /\ ttl[self[t]] > 0
       /\ local[t].age = PyNum(ttl[self[t]])
       /\ ret[t] = PyNone
       /\ files[local[t].key] = NoFile

\* C3 (as stated): whatever unreadable or corrupted content the file holds,
\* get goes on to delete it and return None, and never raises.
C3_AsStated ==
    [][\A t \in Threads :
          (pc[t] = "get_open" /\ pc'[t] # "get_open"
              /\ ~IsRecord(files[local[t].key]))
             => pc'[t] = "get_unlink"]_vars

\* C4 (as stated): with TTL > 0, every get that returns None leaves no file
\* for its key.
C4_AsStated ==
    [][\A t \in Threads :
          (GetReturns(t) /\ ttl[self[t]] > 0 /\ ret'[t] = PyNone)
             => files'[local[t].key] = NoFile]_vars

\* C5: with TTL = 0 the constructor creates no directory, no call creates a
\* directory or a file or changes one, and every get returns None.
C5_Inert ==
    [][\A t \in Threads :
          ttl[self[t]] = 0 =>
             /\ (\A i \in made : ttl[i] = 0) => (dirExists = preDir /\ dirExists' = preDir)
             /\ (op[t] \in {"get", "set"} /\ pc[t] \notin Ready /\ pc'[t] # pc[t])
                   => /\ files' = files
                      /\ dirExists' = dirExists
                      /\ pc'[t] = "done"
                      /\ ret'[t] = PyNone]_vars

C5_Witness ==
    \E t \in Threads :
       /\ pc[t] = "done" /\ op[t] = "set" /\ ttl[self[t]] = 0
       /\ ~dirExists
       /\ \A k \in Keys : files[k] = NoFile

\* C6: set never raises: a write that fails makes set return normally, and
\* call_llm returns the result of the reasoning call whether or not the
\* write went through.
C6_WriteFailureSwallowed ==
    [][\A t \in Threads :
          (pc[t] \in {"set", "set_lock", "set_dump"} /\ pc'[t] # pc[t])
             => /\ pc'[t] # "raised"
                /\ (pc'[t] = "done" /\ op[t] = "call_llm") => ret'[t] = local[t].result
                /\ (pc'[t] = "done" /\ op[t] = "set") => ret'[t] = PyNone]_vars

C6_Witness ==
    \E t \in Threads :
       /\ pc[t] = "done" /\ op[t] = "call_llm"
       /\ local[t].age = PyNone
       /\ ret[t] \in Payloads
       /\ lastSet[local[t].key].st = "failed"
       /\ lastSet[local[t].key].value = ret[t]
       /\ lastSet[local[t].key].ts = clock

\* C7 (as stated): no get deletes the unexpired entry of a set that has
\* completed, whichever CacheManager over the directory the calls go through.
C7_AsStated ==
    [][\A t \in Threads :
          (pc[t] = "get_unlink" /\ pc'[t] # "get_unlink") =>
             LET s == lastSet[local[t].key]
             IN ~(/\ s.st = "stored"
                  /\ files[local[t].key] = EntryOf(s)
                  /\ clock - s.ts < ttl[self[t]])]_vars

\* C8: from a full bucket with no time passing, each of the first C calls
\* returns without sleeping and the next one sleeps 60/C seconds (wait_time
\* is in seconds times C).
C8_Burst ==
    [][\A t \in Threads :
          LET i == self[t]
          IN /\ (clock = 0 /\ pc[t] = "wait_refill" /\ pc'[t] # "wait_refill") =>
                   IF fast[i] < rate_limit[i].n
                      THEN pc'[t] = "done" /\ fast'[i] = fast[i] + 1
                   ELSE pc'[t] = "sleep" /\ local'[t].wait_time = SecondsPerMinute
             /\ (pc[t] = "sleep" /\ pc'[t] # "sleep" /\ local[t].slept_from = 0)
                   => (clock - 0) * rate_limit[i].n >= local[t].wait_time]_vars

C8_Witness ==
    \E t \in Threads :
       /\ clock = 0 /\ pc[t] = "sleep"
       /\ fast[self[t]] = rate_limit[self[t]].n
       /\ local[t].wait_time = SecondsPerMinute

\* C9 (as stated): once the bucket has been emptied, the calls that have
\* returned without sleeping since number at most floor(t*C/60), t being the
\* seconds passed since.
C9_AsStated ==
    \A i \in made :
       mark[i].on => SecondsPerMinute * mark[i].n <= (clock - mark[i].at) * rate_limit[i].n

\* C10 (as stated): every call that returns without sleeping has a token of
\* its own: such calls number at most the C tokens of the full bucket plus
\* the tokens accrued since, at C/60 per second.
C10_AsStated ==
    \A i \in made :
       rate_limit[i] # PyNone =>
          SecondsPerMinute * fast[i] <= FullBucket(rate_limit[i].n) + clock * rate_limit[i].n

\* Two RateLimiter objects, as two LLMNode objects hold them, each called
\* from its own thread.
NodeOf(t) == IF t = "t1" THEN "A" ELSE "B"

NextLimiters ==
    \/ \E t \in Threads : BeginWait(t, NodeOf(t))
    \/ WaitSteps
    \/ Tick(Interval)

InitLimiters == InitWith(Insts, Threads, {0}, {}, Rates)
SpecLimiters == InitLimiters /\ [][NextLimiters]_vars

\* C11: on a limiter with rate_limit = None every wait_if_needed call
\* returns on its first step, without taking the lock, touching the bucket
\* or sleeping, however many callers there are.
C11_UnlimitedNeverWaits ==
    [][\A t \in Threads :
          (op[t] = "wait_if_needed" /\ rate_limit[self[t]] = PyNone
              /\ pc[t] \notin Ready /\ pc'[t] # pc[t])
             => /\ pc[t] = "wait"
                /\ pc'[t] = "done"
                /\ clock' = clock
                /\ UNCHANGED <<bucket, rl_lock>>]_vars

C11_Witness ==
    /\ \A t \in Threads :
          /\ pc[t] = "done" /\ op[t] = "wait_if_needed"
          /\ rate_limit[self[t]] = PyNone
    /\ clock = 0

\* C12: a wait_if_needed call on one limiter leaves the tokens and the
\* last-refill time of every other limiter as they were, and a call sleeps
\* only on a limiter that has itself handed out its full bucket.
C12_NoSharedPool ==
    [][\A t \in Threads :
          (op[t] = "wait_if_needed" /\ pc[t] \notin Ready /\ pc'[t] # pc[t])
             => /\ \A j \in Insts \ {self[t]} :
                      tokens'[j] = tokens[j] /\ last_update'[j] = last_update[j]
                /\ pc'[t] = "sleep" => fast[self[t]] >= rate_limit[self[t]].n]_vars

C12_Witness ==
    /\ clock = 0
    /\ pc["t1"] = "sleep" /\ self["t1"] = "A"
    /\ pc["t2"] = "done" /\ self["t2"] = "B" /\ op["t2"] = "wait_if_needed"
    /\ fast["B"] = 1
    /\ tokens["B"] = FullBucket(rate_limit["B"].n) - SecondsPerMinute

\* C13 (as stated): in a process whose nodes are all given the one
\* configured capacity C, the calls the limiters have let through without
\* sleeping, summed over the nodes, number at most the C tokens of one full
\* bucket plus the tokens accrued since at C/60 per second.
C13_AsStated ==
    rate_limit["A"] = rate_limit["B"] =>
       SecondsPerMinute * (fast["A"] + fast["B"])
          <= FullBucket(rate_limit["A"].n) + clock * rate_limit["A"].n

\* C14: in call_llm a lookup that finds an unexpired entry ends the call
\* with that entry, the bucket and the limiter's lock untouched; the limiter
\* is entered only from the lookup, on a miss, and the external call only
\* from the limiter.
C14_CacheFirst ==
    [][\A t \in Threads :
          (op[t] = "call_llm" /\ pc'[t] # pc[t]) =>
             LET c == files[local[t].key]
             IN /\ (pc[t] = "get_open" /\ IsRecord(c)
                       /\ clock - StoredAt(c) < ttl[self[t]]
                       /\ DictGet(safe_load(c), "result") # PyNone)
                      => /\ pc'[t] = "done"
                         /\ ret'[t] = DictGet(safe_load(c), "result")
                /\ pc[t] \in {"get", "get_open", "get_unlink"}
                      => UNCHANGED <<bucket, rl_lock>>
                /\ pc'[t] = "wait"
                      => (pc[t] \in {"get", "get_open", "get_unlink"} /\ ret'[t] = PyNone)
                /\ pc'[t] = "llm_call"
                      => pc[t] \in {"wait", "wait_refill", "wait_reset"}]_vars

C14_Witness ==
    \E t \in Threads :
       /\ pc[t] = "done" /\ op[t] = "call_llm"
       /\ local[t].age # PyNone
       /\ ret[t] \in Payloads
       /\ lastSet[local[t].key].st = "stored"
       /\ ret[t] = lastSet[local[t].key].value
       /\ rate_limit[self[t]] # PyNone
       /\ fast[self[t]] = 1

\* C15 (as stated): whatever the node, control reaches the external
\* reasoning call only from the limiter's check; and a criterion node
\* commits its result to the shared store only when the cache holds that
\* result.
C15_AsStated ==
    [][\A t \in Threads :
          /\ (pc'[t] \in {"llm_call", "direct_call"} /\ pc'[t] # pc[t])
                => pc[t] \in {"wait", "wait_refill", "wait_reset"}
          /\ (node[t].kind # "llm" /\ node[t].phase = "post" /\ node'[t].phase = "ok")
                => \E k \in Keys :
                      /\ IsRecord(files[k])
                      /\ DictGet(safe_load(files[k]), "result") = node[t].exec_res]_vars

C17_AsStated ==
    [][\A t \in Threads :
          (node[t].phase = "exec" /\ node'[t].phase = "attempt" /\ node[t].cur_retry > 0)
             => clock - node[t].failed_at >= workflow.retry_wait]_vars

\* C18 (as stated): an attempt that follows a failed one repeats only the
\* external call: it starts no cache lookup.
C18_AsStated ==
    [][\A t \in Threads :
          (node[t].cur_retry > 0 /\ pc'[t] # pc[t]) => pc'[t] # "get"]_vars

\* A response with the three fields of a structured result, each of its
\* type and the confidence within [0, 1].
WellFormed(d) ==
    /\ d.t = "dict"
    /\ DictHas(d, "met") /\ DictHas(d, "reasoning") /\ DictHas(d, "confidence")
    /\ Validates([met |-> DictGet(d, "met"), reasoning |-> DictGet(d, "reasoning"),
                  confidence |-> DictGet(d, "confidence")])

\* C19 (as stated): a criterion node commits a verdict only for a
\* well-formed response, and a run fails only once every configured attempt
\* has been made.
C19_AsStated ==
    \A t \in Threads :
       node[t].kind = "criterion" =>
          /\ node[t].phase = "ok" => WellFormed(node[t].exec_res)
          /\ node[t].phase = "failed" => node[t].cur_retry + 1 >= workflow.max_retries

\* The verdict that ends the evaluation under the operator.
Deciding(sub_logic, met) == (sub_logic = "any" /\ met) \/ (sub_logic = "all" /\ ~met)

\* C20: the sub-criteria with a result are a prefix of the declared list,
\* each result carrying the verdict given for its sub-criterion, and none
\* follows a deciding verdict; an evaluation that ends has stopped at the
\* first deciding verdict or, with none, after the last sub-criterion, and
\* the parent's met is then the disjunction (ANY) or conjunction (ALL) of
\* all declared verdicts.  In particular ANY over [false, true, false] and
\* ALL over [true, false, true] end with exactly the first two evaluated.
C20_ShortCircuit ==
    \A t \in Threads :
       LET v == policy.verdicts
           o == policy.sub_logic
           sh == shared[t]
           done == Evaluated(sh, TheCriterion)
           Stops == {j \in 1..Len(v) : Deciding(o, v[j])}
           last == IF Stops = {} THEN Len(v)
                   ELSE CHOOSE j \in Stops : \A i \in Stops : j <= i
       IN node[t].kind = "subcriterion" =>
             /\ \E k \in 0..Len(v) : done = 1..k
             /\ \A j \in done :
                   /\ SubResult(sh, TheCriterion, j).met = PyBool(v[j])
                   /\ \A i \in 1..(j - 1) : ~Deciding(o, v[i])
             /\ node[t].phase = "end" =>
                   /\ done = 1..last
                   /\ o \in LogicOperators =>
                         ParentMet(o, sh, TheCriterion) =
                            (IF o = "any" THEN \E j \in 1..Len(v) : v[j]
                             ELSE \A j \in 1..Len(v) : v[j])
                   /\ (o = "any" /\ v = <<FALSE, TRUE, FALSE>>)
                         => (done = {1, 2} /\ ParentMet(o, sh, TheCriterion))
                   /\ (o = "all" /\ v = <<TRUE, FALSE, TRUE>>)
                         => (done = {1, 2} /\ ~ParentMet(o, sh, TheCriterion))

C20_Witness ==
    \E t \in Threads :
       /\ node[t].phase = "end"
       /\ policy.sub_logic = "any"
       /\ policy.verdicts = <<FALSE, TRUE, FALSE>>
       /\ Evaluated(shared[t], TheCriterion) = {1, 2}
       /\ ParentMet("any", shared[t], TheCriterion)

\* The number of sub-criterion nodes that have run to the end of post.
RanThrough(n) == IF n.phase \in {"ok", "end"} THEN n.idx ELSE n.idx - 1

\* C21: the sub-results in the store under the parent are, in the order of
\* the mapping, the sub-criteria whose nodes have run, first declared first;
\* and when the evaluation ended on "satisfied" or "failed" with declared
\* sub-criteria left over, they are a strict prefix of the declared list.
C21_ExactPrefix ==
    \A t \in Threads :
       node[t].kind = "subcriterion" =>
          LET ids == IdsOf(shared[t].sub_order, TheCriterion)
              k == RanThrough(node[t])
          IN /\ ids = [j \in 1..k |-> j]
             /\ Evaluated(shared[t], TheCriterion) = 1..k
             /\ k <= Len(policy.verdicts)
             /\ (node[t].phase = "end" /\ node[t].label # "default"
                    /\ node[t].idx < Len(policy.verdicts))
                   => Len(ids) < Len(policy.verdicts)

C21_Witness ==
    \E t \in Threads :
       /\ node[t].phase = "end"
       /\ node[t].label = "failed"
       /\ Len(policy.verdicts) = 3
       /\ IdsOf(shared[t].sub_order, TheCriterion) = <<1, 2>>

\* C22 (as stated): within one run no entry of the shared store is
\* assigned twice, by the same node or by another.
C22_AsStated ==
    \A t \in Threads :
       LET w == shared[t].writes
       IN \A i, j \in DOMAIN w : w[i][1] = w[j][1] => i = j

\* The label a node of the type returns from post.
LabelOf(type) == IF type = "CriterionEvaluationNode" THEN "default" ELSE get_action(PyNone)

\* The graph A --default--> B, B without a route for its label, start A.
IsChainAB(g) ==
    /\ g.start_node = "A"
    /\ {c.id : c \in g.nodes} = {"A", "B"}
    /\ ConfigOf(g, "A").type = "CriterionEvaluationNode"
    /\ ConfigOf(g, "A").routes = {<<"default", "B">>}
    /\ Targets(g, "B", LabelOf(ConfigOf(g, "B").type)) = {}

\* C23: a run starts at the start node; the engine's current node is the
\* last of the nodes it ran, each reached from the one before by the route
\* of the label that node returned; the run halts exactly on a node that ran
\* its three phases and whose label has no route, and that is not a
\* failure: a run fails only on a node that failed.  On A --default--> B
\* with start A a halted run has run A, then B.
C23_EngineLoop ==
    \A t \in {"t1"} :
       flow.status \in {"running", "halted", "failed"} =>
          LET g == flow.graph
              tr == flow.trail
          IN /\ tr # <<>> /\ tr[1] = flow.definition.start_node
             /\ flow.current = tr[Len(tr)] /\ node[t].nid = flow.current
             /\ \A i \in 1..(Len(tr) - 1) :
                   tr[i + 1] \in Targets(g, tr[i], LabelOf(ConfigOf(g, tr[i]).type))
             /\ flow.status = "halted" =>
                   /\ node[t].phase = "ok"
                   /\ Targets(g, flow.current, node[t].label) = {}
             /\ (flow.status = "running" /\ node[t].phase = "ok")
                   => (ENABLED Advance(t) \/ Len(tr) = MaxVisits)
             /\ flow.status = "failed" => node[t].phase = "failed"
             /\ (flow.status = "halted" /\ IsChainAB(g)) => tr = <<"A", "B">>

C23_Witness ==
    /\ flow.status = "halted"
    /\ IsChainAB(flow.graph)
    /\ flow.trail = <<"A", "B">>
    /\ node["t1"].phase = "ok"

\* C24: the attempt that fails a node commits nothing to the shared store,
\* and from a failed node on the run only ends, as a failure: no other node
\* is entered, the store stays as it is, and the run is never halted as a
\* normal termination.
C24_FailureHalts ==
    [][\A t \in Threads :
          /\ (node[t].phase # "failed" /\ node'[t].phase = "failed")
                => (shared'[t] = shared[t] /\ flow' = flow)
          /\ node[t].phase = "failed"
                => /\ node'[t] = node[t]
                   /\ shared'[t] = shared[t]
                   /\ flow' = [flow EXCEPT !.status = "failed"]]_vars

C24_Witness ==
    /\ flow.status = "failed"
    /\ node["t1"].phase = "failed"
    /\ node["t1"].kind = "criterion"
    /\ node["t1"].error = PyExc("Exception")
    /\ node["t1"].cur_retry + 1 = workflow.max_retries
    /\ Targets(flow.graph, flow.current, "default") # {}
    /\ Len(flow.trail) = 2

\* A definition with a type tag that names no implementation, a start node
\* id that is not defined, or a route to a node id that is not defined.
IllFormed(d) ==
    LET ids == {d.nodes[i].id : i \in DOMAIN d.nodes}
    IN \/ \E i \in DOMAIN d.nodes : d.nodes[i].type = UnknownType
       \/ d.start_node \notin ids
       \/ \E i \in DOMAIN d.nodes : \E r \in d.nodes[i].routes : r[2] \notin ids

\* C25: the construction from an ill-formed definition fails, and only
\* that one; a failed construction leaves no graph, names what offended, and
\* no node is ever run: the store stays empty and no node object is entered.
C25_NoPartialGraph ==
    flow.status # "new" =>
       /\ flow.status = "rejected" <=> IllFormed(flow.definition)
       /\ flow.status = "rejected" =>
             /\ flow.graph = NoGraph
             /\ flow.errors # {}
             /\ flow.trail = <<>> /\ flow.current = "none"
             /\ \A t \in Threads : node[t] = Node0 /\ shared[t] = Shared0
       /\ flow.status # "rejected" =>
             {c.id : c \in flow.graph.nodes} = {flow.definition.nodes[i].id :
                                                   i \in DOMAIN flow.definition.nodes}

C25_Witness ==
    /\ flow.status = "rejected"
    /\ Len(flow.definition.nodes) = 2
    /\ flow.definition.start_node = "A"
    /\ flow.definition.nodes[1].type = "CriterionEvaluationNode"
    /\ flow.errors = {<<"type", UnknownType>>}
    /\ flow.graph = NoGraph

\* C26: a ConfidenceGateConfig that was constructed has
\* 0 <= low <= high <= 1; the construction fails exactly when a threshold is
\* outside [0, 1] or high < low, so equal thresholds are accepted; and
\* nothing is classified against a configuration that failed.
C26_ThresholdOrder ==
    /\ [](gate.status = "ok" =>
             (0 <= gate.low /\ gate.low <= gate.high /\ gate.high <= Unit))
    /\ [](gate.status = "error" => (gate.level = "none" /\ gate.error # "none"))
    /\ [][\A high, low \in Thresholds :
             LoadGate(high, low) =>
                (gate'.status = "ok" <=> (0 <= low /\ low <= high /\ high <= Unit))]_vars

C26_Witness ==
    /\ gate.status = "ok"
    /\ gate.high = 70 /\ gate.low = 70

KeyComputed(t) ==
    /\ op'[t] = "generate_key"
    /\ <<pc[t], op[t], self[t], local[t], ret[t]>> # <<pc'[t], op'[t], self'[t], local'[t], ret'[t]>>

C29_AsStated ==
    [][\A t \in Threads :
          ttl[self[t]] = 0 =>
             /\ (op[t] = "set" /\ pc[t] \notin Ready /\ pc'[t] = "done")
                   => /\ IsRecord(files'[local[t].key])
                      /\ DictGet(safe_load(files'[local[t].key]), "result") = local[t].value
             /\ (GetEnds(t) /\ IsRecord(files[local[t].key]))
                   => /\ pc'[t] = "done"
                      /\ ret'[t] = DictGet(safe_load(files[local[t].key]), "result")]_vars

\* C30: a sub-criterion node that has run post has its result in the
\* store under the parent's id and its own, built from what exec returned,
\* and its label is "satisfied" exactly when the operator is ANY and the
\* result is met, "failed" exactly when the operator is ALL and the result is
\* not met, and "default" otherwise, so always when no operator is set.
C30_PostLabel ==
    \A t \in Threads :
       (node[t].kind = "subcriterion" /\ node[t].phase = "ok") =>
          LET n == node[t]
              o == policy.sub_logic
              met == DictGet(n.exec_res, "met").b
          IN /\ "sub_criterion_results" \in shared[t].keys
             /\ n.idx \in Evaluated(shared[t], TheCriterion)
             /\ SubResult(shared[t], TheCriterion, n.idx) = ResultOf(n.idx, n.exec_res)
             /\ n.label = "satisfied" <=> (o = "any" /\ met)
             /\ n.label = "failed" <=> (o = "all" /\ ~met)
             /\ n.label = "default" <=> ~((o = "any" /\ met) \/ (o = "all" /\ ~met))
             /\ o = "none" => n.label = "default"

C30_Witness ==
    \E t \in Threads :
       /\ node[t].kind = "subcriterion" /\ node[t].phase = "ok"
       /\ policy.sub_logic = "none"
       /\ DictGet(node[t].exec_res, "met") = PyBool(FALSE)
       /\ node[t].label = "default"
       /\ SubResult(shared[t], TheCriterion, node[t].idx).met = PyBool(FALSE)

\* C31: on a limiter with a rate limit, whatever the interleaving of its
\* callers, the tokens stay between 0 and the capacity and the last-refill
\* time never goes back.
C31_BucketInRange ==
    /\ [](\A i \in made :
            rate_limit[i] # PyNone =>
               /\ 0 <= tokens[i]
               /\ tokens[i] <= FullBucket(rate_limit[i].n))
    /\ [][\A i \in made :
            rate_limit[i] # PyNone => last_update'[i] >= last_update[i]]_vars

\* A first call made after the bucket sat full for a while: the refill was
\* capped, one token went and the refill time moved forward.
C31_Witness ==
    /\ rate_limit["A"] # PyNone
    /\ fast["A"] = 1
    /\ last_update["A"] > 0
    /\ tokens["A"] = FullBucket(rate_limit["A"].n) - SecondsPerMinute
    /\ \E t \in Threads : pc[t] = "wait"

\* C32: a caller that has to wait leaves the lock before it sleeps: no
\* sleeping caller holds it, and a caller that arrives at a limiter where
\* another one sleeps can take the lock at once.
C32_SleepsUnlocked ==
    \A t \in Threads :
       pc[t] = "sleep" =>
          /\ rl_lock[self[t]] # t
          /\ \A u \in Threads \ {t} :
                (pc[u] = "wait" /\ self[u] = self[t]) => ENABLED WaitEnter(u)

\* While one caller sleeps, the other has gone through its own accounting
\* and sleeps too, its wait worked out from a bucket the first had refilled.
C32_Witness ==
    /\ pc["t1"] = "sleep" /\ pc["t2"] = "sleep"
    /\ self["t1"] = self["t2"]
    /\ local["t1"].slept_from < local["t2"].slept_from
    /\ rl_lock[self["t1"]] = "free"

\* Nodes of the three kinds run one after the other on a store that holds
\* any of the inputs and any earlier outputs.
OutputKeys == StoreKeys \cup {"none"}
Stores ==
    {[Shared0 EXCEPT !.inputs = ins, !.keys = ks,
                     !.outputs = {<<k, PyStr("old")>> : k \in ks}] :
        ins \in SUBSET InputKeys, ks \in SUBSET StoreKeys}

NextStore ==
    \/ \E t \in Threads, kind \in {"deterministic", "criterion", "subcriterion"},
          key \in OutputKeys : Prep(t, kind, key)
    \/ \E t \in Threads : ExecStart(t)
    \/ \E t \in Threads : DirectCall(t, Verdict(TRUE))
    \/ \E t \in Threads : DetExec(t)
    \/ \E t \in Threads : ExecEnd(t)
    \/ \E t \in Threads : Post(t)

InitStore ==
    /\ InitInfra({"A"}, {"t1"}, {0}, {}, {PyNone})
    /\ workflow = DefaultWorkflow
    /\ policy = NoPolicy
    /\ node = [t \in Threads |-> Node0]
    /\ shared \in [Threads -> Stores]
    /\ shared["t2"] = Shared0
    /\ flow = Flow0
    /\ gate = Gate0
SpecStore == InitStore /\ [][NextStore]_vars

\* The content of a store: its keys and what they hold, the record of who
\* wrote what left aside.
Content(sh) == [sh EXCEPT !.writes = <<>>]

\* C34: the prepare phase of a deterministic, a criterion and a
\* sub-criterion node leaves the shared store as it found it, whatever the
\* store holds and whether prep returns or raises.
C34_PrepReadsOnly ==
    [][\A t \in Threads :
          (node[t].phase \in Idle /\ node'[t].phase \in {"exec", "failed"}
              /\ node'[t].kind \in {"deterministic", "criterion", "subcriterion"})
             => shared'[t] = shared[t]]_vars

\* prep of a deterministic node fell back to "" on a store without the
\* input text, and the store still lacks the key.
C34_Witness ==
    \E t \in Threads :
       /\ node[t].kind = "deterministic" /\ node[t].phase = "exec"
       /\ node[t].prep_res = PyDict({<<"input_text", PyStr("")>>})
       /\ "input_text" \notin shared[t].inputs

\* What a store holds under a key: one value, or nothing.
OutputAt(sh, k) == {e[2] : e \in {x \in sh.outputs : x[1] = k}}
\* The store without the key.
Without(sh, k) == [Content(sh) EXCEPT !.keys = @ \ {k}, !.outputs = {e \in @ : e[1] # k}]

\* C35: post of a deterministic node returns the label get_action gives
\* for exec_res; with an output_key it stores exec_res under that key and
\* leaves every other key as it was; without one it leaves the whole store
\* as it was.
C35_PostFrame ==
    [][\A t \in Threads :
          (node[t].kind = "deterministic" /\ node[t].phase = "post"
              /\ node'[t].phase # "post")
             => LET k == node[t].key
                    exec_res == node[t].exec_res
                IN /\ node'[t].phase = "ok"
                   /\ node'[t].label = get_action(exec_res)
                   /\ node'[t].label = "completed"
                   /\ k = "none" => Content(shared'[t]) = Content(shared[t])
                   /\ k # "none" =>
                         /\ k \in shared'[t].keys
                         /\ OutputAt(shared'[t], k) = {exec_res}
                         /\ Without(shared'[t], k) = Without(shared[t], k)]_vars

\* A deterministic node stored its result under k1 in a store that held
\* an earlier output under k2 and the result of a criterion.
C35_Witness ==
    \E t \in Threads :
       /\ node[t].kind = "deterministic" /\ node[t].phase = "ok"
       /\ node[t].key = "k1"
       /\ OutputAt(shared[t], "k1") = {node[t].exec_res}
       /\ OutputAt(shared[t], "k2") = {PyStr("old")}
       /\ shared[t].criterion_results # {}

\* The routes of a graph, taken or not, and the graphs without a cycle.
Edge(g, a, b) == \E c \in g.nodes : c.id = a /\ \E r \in c.routes : r[2] = b
RECURSIVE ReachIn(_, _, _, _)
ReachIn(g, a, b, n) ==
    IF n = 0 THEN FALSE
    ELSE Edge(g, a, b) \/ \E c \in g.nodes : Edge(g, a, c.id) /\ ReachIn(g, c.id, b, n - 1)
Acyclic(g) == \A c \in g.nodes : ~ReachIn(g, c.id, c.id, Cardinality(g.nodes))
NoRepeat(tr) == \A i, j \in DOMAIN tr : i # j => tr[i] # tr[j]

\* C36: a run halts only where the label of the node that ran has no route;
\* on a graph without a cycle no node runs twice, so a run is over after at
\* most one execution of each node; a run whose routes led it back to a
\* node it had run never halts, and the engine goes on entering the target
\* however often it was visited.
C36_Termination ==
    \A t \in {"t1"} :
       flow.status \in {"running", "halted", "failed"} =>
          LET g == flow.graph
              tr == flow.trail
          IN /\ flow.status = "halted" =>
                   /\ node[t].phase = "ok"
                   /\ Targets(g, flow.current, node[t].label) = {}
                   /\ NoRepeat(tr)
             /\ Acyclic(g) => (NoRepeat(tr) /\ Len(tr) <= Cardinality(g.nodes))
             /\ ~NoRepeat(tr) =>
                   /\ flow.status # "halted"
                   /\ (flow.status = "running" /\ node[t].phase = "ok")
                         => (ENABLED Advance(t) \/ Len(tr) = MaxVisits)

\* On A --default--> B --completed--> A the run is back on A after B and
\* still running.
C36_Witness ==
    /\ flow.status = "running"
    /\ flow.trail = <<"A", "B", "A">>
    /\ node["t1"].phase = "ok"
    /\ ~Acyclic(flow.graph)

\* One LLMNode asked, one call at a time, with two different pairs of
\* system prompt and prompt; the external call answers each request with
\* the answer of that request.
RequestName(r) ==
    IF r[1] = PyNone THEN "None|p"
    ELSE IF Len(r[1].chars) = 2 THEN "s_|p"
    ELSE IF Len(r[2].chars) = 2 THEN "s|_p"
    ELSE "s|p"
AnswerTo(r) == PyDict({<<"reasoning", PyStr(RequestName(r))>>})
Answered(t) == LlmCall(t, AnswerTo(local[t].request))

NextPairs ==
    \/ \E t \in Threads, r \in Joined : BeginCallLLM(t, "A", r[1], r[2], TRUE)
    \/ GetSteps
    \/ \E t \in Threads : WaitEnter(t)
    \/ \E t \in Threads : Answered(t)
    \/ SetSteps
    \/ Tick(1)

InitPairs == InitWith({"A"}, {"t1"}, {MaxTTL}, {}, {PyNone})
SpecPairs == InitPairs /\ [][NextPairs]_vars

\* C37 (as stated): a call_llm that ends on a cache hit returns what was
\* stored for its own pair of system prompt and prompt, that is, the answer
\* to its own request.
C37_AsStated ==
    \A t \in Threads :
       (op[t] = "call_llm" /\ pc[t] = "done" /\ local[t].age # PyNone)
          => ret[t] = AnswerTo(local[t].request)

\* C38: in call_llm the cache is written to only by the set that follows
\* an external call that returned a mapping asked for as YAML; an external
\* call that raises ends call_llm at once and leaves the cache as it was.
C38_FailureNotCached ==
    [][\A t \in Threads :
          (op[t] = "call_llm" /\ pc'[t] # pc[t]) =>
             /\ pc'[t] = "set" =>
                   /\ pc[t] = "llm_call"
                   /\ local'[t].yaml_response
                   /\ local'[t].value.t = "dict"
             /\ pc'[t] \in {"set_lock", "set_dump"} => pc[t] \in {"set", "set_lock"}
             /\ (\E k \in Keys : files'[k] # files[k] /\ files'[k] # NoFile)
                   => pc[t] \in {"set_lock", "set_dump"}
             /\ (pc[t] = "llm_call" /\ pc'[t] \notin {"set", "done"})
                   => /\ pc'[t] = "raised" /\ ret'[t].t = "exc"
                      /\ UNCHANGED <<files, lastSet, lock>>]_vars

\* The external call raised on a miss that followed a stored entry's
\* expiry: the call ended with the exception and the cache holds no file.
C38_Witness ==
    \E t \in Threads :
       /\ op[t] = "call_llm" /\ pc[t] = "raised"
       /\ ret[t] = PyExc("Exception")
       /\ ttl[self[t]] > 0
       /\ lastSet[local[t].key].st = "stored"
       /\ files[local[t].key] = NoFile

\* C39: a get that returns a payload leaves the entry as it is, timestamp
\* and payload: the entry it returns is younger than the TTL counted from
\* the timestamp its set wrote, however often it was read.
C39_HitReadsOnly ==
    [][\A t \in Threads :
          (op[t] = "get" /\ pc[t] = "get_open" /\ pc'[t] = "done" /\ ret'[t] # PyNone)
             => LET c == files[local[t].key]
                IN /\ files' = files
                   /\ ret'[t] = DictGet(safe_load(c), "result")
                   /\ clock - DictGet(safe_load(c), "timestamp").n < ttl[self[t]]
                   /\ lastSet[local[t].key].st = "stored"
                         => DictGet(safe_load(c), "timestamp").n = lastSet[local[t].key].ts]_vars

\* An entry stored at time 0 was read a tick later: it is returned, and the
\* file still carries the timestamp 0.
C39_Witness ==
    \E t \in Threads :
       /\ op[t] = "get" /\ pc[t] = "done" /\ ret[t] \in Payloads
       /\ local[t].age = PyNum(1)
       /\ lastSet[local[t].key] = [st |-> "stored", value |-> ret[t], ts |-> 0]
       /\ IsRecord(files[local[t].key]) /\ StoredAt(files[local[t].key]) = 0

\* One RateLimiter with a rate limit, two concurrent callers, under fair
\* scheduling.  Calls arrive during the first MaxTicks ticks; after that
\* time passes only as long as a caller still has to sleep.
Arrive(t) ==
    /\ clock < MaxTicks * Interval
    /\ BeginWait(t, "A")

Elapse ==
    /\ \/ clock < MaxTicks * Interval
       \/ \E t \in Threads : pc[t] = "sleep" /\ ~Rested(t)
    /\ clock' = clock + Interval
    /\ UNCHANGED <<config, engine, store, lock, bucket, rl_lock, pc, op, self, local, ret>>

NextLimiterFair ==
    \/ \E t \in Threads : Arrive(t)
    \/ WaitSteps
    \/ Elapse

\* The lock is granted fairly, a running caller takes its next step, and
\* time passes, so that sleeps end.
FairLimiter ==
    /\ \A t \in Threads : SF_vars(WaitEnter(t))
    /\ \A t \in Threads : WF_vars(WaitRefill(t))
    /\ \A t \in Threads : WF_vars(WakeUp(t))
    /\ \A t \in Threads : SF_vars(WaitReset(t))
    /\ WF_vars(Elapse)

InitLimiterFair == InitWith({"A"}, Threads, {0}, {}, Rates)
SpecLimiterFair == InitLimiterFair /\ [][NextLimiterFair]_vars /\ FairLimiter

InCall(t) == pc[t] \in {"wait", "wait_refill", "sleep", "wait_reset"}

\* C40: every wait_if_needed call returns in the end; a call that sleeps
\* asks for at most 60/C seconds (wait_time is in seconds times C), worked
\* out from the bucket alone, whether or not another caller sleeps already:
\* callers that find the bucket empty together are all rested one token
\* interval later.
C40_CallsReturn ==
    /\ \A t \in Threads : InCall(t) ~> (pc[t] = "done")
    /\ [](\A t \in Threads :
            pc[t] = "sleep" =>
               /\ local[t].wait_time <= SecondsPerMinute
               /\ (clock - local[t].slept_from) * rate_limit[self[t]].n >= SecondsPerMinute
                     => Rested(t))
    /\ [][\A t \in Threads :
            (pc[t] = "wait_refill" /\ pc'[t] = "sleep")
               => local'[t].wait_time = SecondsPerMinute - tokens'[self[t]]]_vars

\* Both callers found the bucket empty at time 0, slept, and are awake
\* together one token interval later.
C40_Witness ==
    /\ \A t \in Threads :
          /\ pc[t] = "wait_reset"
          /\ local[t].slept_from = 0
          /\ local[t].wait_time = SecondsPerMinute
    /\ clock * rate_limit["A"].n = SecondsPerMinute

\* One CacheManager, two concurrent callers, each on a key of its choice.
TwoKeys == {generate_key(CacheInput(sp, p)) : sp \in SystemPrompts, p \in Prompts}

NextCacheKeys ==
    \/ \E t \in Threads, k \in TwoKeys : BeginGet(t, "A", k)
    \/ \E t \in Threads, k \in TwoKeys : BeginSet(t, "A", k, PyDict({}))
    \/ GetSteps
    \/ SetSteps

InitCacheKeys == InitWith({"A"}, Threads, {MaxTTL}, {}, {PyNone})
SpecCacheKeys == InitCacheKeys /\ [][NextCacheKeys]_vars

\* The caller holds the lock of its CacheManager: it is inside the `with`
\* block of get or of set.
InBlock(t) == pc[t] \in {"get_open", "get_unlink", "set_dump"}

\* C33 (as stated): a get or a set on one key can go ahead while a get or a
\* set on another key of the same cache is in progress.
C33_AsStated ==
    \A t, u \in Threads :
       (InBlock(u) /\ self[t] = self[u] /\ local[t].key # local[u].key) =>
          /\ pc[t] = "get" => ENABLED GetEnter(t)
          /\ pc[t] = "set_lock" => ENABLED (\E opens \in BOOLEAN : SetOpen(t, opens))
====
